---- MODULE Spec2Model ----
(***************************************************************************)
(* Chemical identity resolution of the inventory backend:                  *)
(*   backend/app/services/cas_service.py      (CASService)                 *)
(*   backend/app/services/pubchem_service.py  (PubChemService)             *)
(*   backend/app/utils/chemical_utils.py      (estimate / validate)        *)
(*   backend/app/api/molecular.py             (HTTP handlers)              *)
(* and its stock requests:                                                 *)
(*   backend/app/crud/stock_crud.py, crud/stock_adjustment_crud.py         *)
(*   backend/app/api/stock.py, api/stock_adjustments.py                    *)
(*                                                                         *)
(* Python strings are sequences of one-character strings, so that strip,   *)
(* split, the regular expressions and the number formatting are computed   *)
(* character by character.  Python's None is the value None below.         *)
(***************************************************************************)
EXTENDS Integers, Sequences, FiniteSets, TLC

VARIABLES
  pc,        \* position of the one caller: "idle", a step of a call, "done"
  op,        \* the entry point being executed ("none" when idle)
  arg,       \* the argument of the call, as the caller passed it
  env,       \* what each external request of this call answers
  clean,     \* clean_smiles of the call
  idx,       \* position of the for loop over self.sources (1-based)
  attempts,  \* history: the sources called so far, each with its result
  returned,  \* the value handed back, filed under the entry point that returned it
  stock,              \* table stock: the committed row of each chemical_id
  alerts,             \* table alerts: the committed rows, in insertion order
  stock_adjustments,  \* table stock_adjustments: the committed rows, in insertion order
  usage_history,      \* table usage_history: the committed rows, in insertion order
  session,            \* the Stock object loaded in the Session of each request
  served              \* number of stock requests accepted so far

dbvars == <<stock, alerts, stock_adjustments, usage_history, session, served>>

vars == <<pc, op, arg, env, clean, idx, attempts, returned,
          stock, alerts, stock_adjustments, usage_history, session, served>>

\* no stock row, no alert, no adjustment, no usage, no open Session
EmptyTables ==
  /\ stock = <<>>
  /\ alerts = <<>>
  /\ stock_adjustments = <<>>
  /\ usage_history = <<>>
  /\ session = <<>>
  /\ served = 0

----------------------------------------------------------------------------
(* Strings *)

\* None where a string is expected, None where a dict is expected, and the
\* value of ret while no call has returned
None == <<"None">>
NoneDict == [none |-> TRUE]
NoRet == <<"NoRet">>

DigitChars == {"0", "1", "2", "3", "4", "5", "6", "7", "8", "9"}
Whitespace == {" ", "\t", "\n", "\r"}

Truthy(s) == s # None /\ s # <<>>

RECURSIVE LStrip(_)
LStrip(s) == IF s # <<>> /\ Head(s) \in Whitespace THEN LStrip(Tail(s)) ELSE s

RECURSIVE RStrip(_)
RStrip(s) ==
  IF s # <<>> /\ s[Len(s)] \in Whitespace THEN RStrip(SubSeq(s, 1, Len(s) - 1)) ELSE s

Strip(s) == RStrip(LStrip(s))

RemoveBackslashes(s) ==
  LET NotBackslash(c) == c # "\\"
  IN  SelectSeq(s, NotBackslash)

IsDigit(s) == s # <<>> /\ \A i \in 1..Len(s) : s[i] \in DigitChars

RECURSIVE Split(_, _)
Split(s, sep) ==
  LET at == {i \in 1..Len(s) : s[i] = sep}
  IN  IF at = {} THEN <<s>>
      ELSE LET i == CHOOSE k \in at : \A j \in at : k <= j
           IN  <<SubSeq(s, 1, i - 1)>> \o Split(SubSeq(s, i + 1, Len(s)), sep)

HexVal(c) ==
  CASE c = "0" -> 0 [] c = "1" -> 1 [] c = "2" -> 2 [] c = "3" -> 3
    [] c = "4" -> 4 [] c = "5" -> 5 [] c = "6" -> 6 [] c = "7" -> 7
    [] c = "8" -> 8 [] c = "9" -> 9 [] c = "a" -> 10 [] c = "b" -> 11
    [] c = "c" -> 12 [] c = "d" -> 13 [] c = "e" -> 14 [] c = "f" -> 15

\* int(h, 16)
HexToInt(h) ==
  LET value[i \in 0..Len(h)] ==
        IF i = 0 THEN 0 ELSE 16 * value[i - 1] + HexVal(h[i])
  IN  value[Len(h)]

DigitChar(d) ==
  CASE d = 0 -> "0" [] d = 1 -> "1" [] d = 2 -> "2" [] d = 3 -> "3" [] d = 4 -> "4"
    [] d = 5 -> "5" [] d = 6 -> "6" [] d = 7 -> "7" [] d = 8 -> "8" [] d = 9 -> "9"

\* the decimal digits of a natural number, most significant first
DecimalDigits(n) ==
  LET len == IF n = 0 THEN 1
             ELSE CHOOSE k \in 1..10 : 10^(k - 1) <= n /\ n < 10^k
  IN  [i \in 1..len |-> DigitChar((n \div 10^(len - i)) % 10)]

\* str(n); the argument is evaluated once and its value v is formatted
FormatInt(n) == CHOOSE r \in {DecimalDigits(v) : v \in {n}} : TRUE

\* the zero fill of the format specs :06d and :02d
ZeroPad(s, width) ==
  CHOOSE r \in {[i \in 1..(width - Len(v)) |-> "0"] \o v : v \in {s}} : TRUE

FormatIntPadded(n, width) == ZeroPad(FormatInt(n), width)

----------------------------------------------------------------------------
(* Descriptors of the model and their MD5 digests *)

D_empty == <<>>
D_blank == <<" ", " ">>
D_ethanol == <<"C", "C", "O">>
D_padded == <<" ", "C", "C", "O", " ">>
D_escaped == <<"C", "C", "\\", "O">>
D_aspirin == <<"C", "C", "(", "=", "O", ")", "O", "c", "1", "c", "c", "c", "c", "c", "1", "C", "(", "=", "O", ")", "O">>
D_hexanol == <<"C", "C", "C", "C", "C", "C", "O">>
D_isobutanol == <<"C", "C", "(", "C", ")", "C", "O">>
D_crotyl == <<"C", "C", "=", "C", "C", "l">>
D_ethanol_rev == <<"O", "C", "C">>
D_methanol == <<"C", "O">>
D_noise == <<"x", "y", "z">>

Descriptors ==
  {D_empty, D_blank, D_ethanol, D_padded, D_escaped, D_aspirin, D_hexanol,
   D_isobutanol, D_crotyl, D_ethanol_rev}

\* the arguments of the chemical_utils entry points: the descriptors above,
\* a two-character one and one without any chemical symbol
UtilDescriptors == Descriptors \cup {D_methanol, D_noise}

\* hashlib.md5(s.encode()).hexdigest()[:14] of the cleaned descriptors above
\* (the digests are the real ones; no caller reads past the 14th digit).
MD5Hex(s) ==
  CASE s = <<>> -> <<"d", "4", "1", "d", "8", "c", "d", "9", "8", "f", "0", "0", "b", "2">>
    [] s = <<"C", "C", "O">> -> <<"4", "7", "0", "2", "9", "b", "0", "a", "8", "9", "b", "6", "7", "7">>
    [] s = <<"C", "C", "\\", "O">> -> <<"4", "b", "4", "0", "c", "a", "1", "e", "5", "f", "d", "6", "9", "6">>
    [] s = <<"C", "C", "(", "=", "O", ")", "O", "c", "1", "c", "c", "c", "c", "c", "1", "C", "(", "=", "O", ")", "O">> -> <<"1", "7", "3", "7", "d", "5", "3", "9", "b", "e", "4", "7", "6", "2">>
    [] s = <<"C", "C", "C", "C", "C", "C", "O">> -> <<"6", "7", "4", "7", "5", "8", "0", "3", "9", "c", "9", "8", "a", "4">>
    [] s = <<"C", "C", "(", "C", ")", "C", "O">> -> <<"c", "6", "a", "f", "0", "6", "7", "9", "6", "6", "8", "4", "a", "2">>
    [] s = <<"C", "C", "=", "C", "C", "l">> -> <<"7", "b", "6", "2", "0", "5", "0", "6", "b", "5", "f", "e", "8", "9">>
    [] s = <<"O", "C", "C">> -> <<"d", "c", "b", "1", "c", "2", "9", "2", "5", "5", "e", "c", "9", "6">>
    [] s = <<"C", "O">> -> <<"4", "2", "9", "8", "3", "b", "0", "5", "e", "2", "f", "2", "c", "c">>
    [] s = <<"x", "y", "z">> -> <<"d", "1", "6", "f", "b", "3", "6", "f", "0", "9", "1", "1", "f", "8">>
    [] s = <<" ", "C", "C", "O", " ">> -> <<"0", "3", "8", "8", "9", "8", "d", "7", "f", "7", "b", "e", "e", "9">>
    [] s = <<" ", " ">> -> <<"2", "3", "b", "5", "8", "d", "e", "f", "1", "1", "b", "4", "5", "7">>

----------------------------------------------------------------------------
(* Registry-number format checks *)

\* re.match(r'^\d{1,7}-\d{2}-\d$', s) without the optional final newline
CasPatternBody(s) ==
  LET parts == Split(s, "-")
  IN  /\ Len(parts) = 3
      /\ IsDigit(parts[1]) /\ IsDigit(parts[2]) /\ IsDigit(parts[3])
      /\ Len(parts[1]) >= 1 /\ Len(parts[1]) <= 7
      /\ Len(parts[2]) = 2
      /\ Len(parts[3]) = 1

\* CASService._is_valid_cas: '$' also matches just before a final newline
_is_valid_cas(cas_string) ==
  /\ Truthy(cas_string)
  /\ \/ CasPatternBody(cas_string)
     \/ /\ cas_string[Len(cas_string)] = "\n"
        /\ CasPatternBody(SubSeq(cas_string, 1, Len(cas_string) - 1))

\* chemical_utils._validate_cas_format
_validate_cas_format(cas_number) ==
  LET parts == Split(cas_number, "-")
  IN  IF Len(parts) # 3 THEN FALSE
      ELSE IF ~(IsDigit(parts[1]) /\ IsDigit(parts[2]) /\ IsDigit(parts[3])) THEN FALSE
      ELSE IF Len(parts[1]) < 2 \/ Len(parts[2]) < 2 \/ Len(parts[3]) # 1 THEN FALSE
      ELSE TRUE

----------------------------------------------------------------------------
(* Strings handed to the format checks *)

\* longest digit groups tried: one more than the grammar allows in each place
MaxFirst == 8
MaxMiddle == 3
MaxLast == 2

Digits(n) == [i \in 1..n |-> "7"]

CasCandidates ==
  LET S_two_groups == <<"5", "0", "-", "7", "8">>
      S_letter == <<"5", "a", "-", "7", "8", "-", "2">>
      S_newline == <<"5", "0", "-", "7", "8", "-", "2", "\n">>
  IN  { Digits(a) \o <<"-">> \o Digits(b) \o <<"-">> \o Digits(c) :
        a \in 0..MaxFirst, b \in 0..MaxMiddle, c \in 0..MaxLast }
      \cup {<<>>, S_two_groups, S_letter, S_newline}

\* the grammar \d{2,7}-\d{2}-\d, matched against the whole string
MatchesGrammar(s) ==
  LET parts == Split(s, "-")
  IN  /\ Len(parts) = 3
      /\ \A k \in 1..3 : IsDigit(parts[k])
      /\ Len(parts[1]) \in 2..7
      /\ Len(parts[2]) = 2
      /\ Len(parts[3]) = 1

----------------------------------------------------------------------------
(* External services: what one request answers *)

\* requests raises on a network error or a timeout; response.json() raises on
\* an unparseable payload; a non-2xx answer is a response whose status_code
\* is not 200.
RaisingKinds == {"network_error", "timeout", "unparseable"}
FailureKinds == RaisingKinds \cup {"non2xx"}

S_aspirin == <<"a", "s", "p", "i", "r", "i", "n">>
S_cas_aspirin == <<"5", "0", "-", "7", "8", "-", "2">>
S_cas_ethanol == <<"6", "4", "-", "1", "7", "-", "5">>
S_cas_short == <<"1", "-", "2", "3", "-", "4">>

\* the Synonym list of the PubChem synonyms payload
SynonymLists ==
  { <<>>,
    <<S_aspirin>>,
    <<S_aspirin, S_cas_aspirin>>,
    <<S_cas_aspirin, S_cas_ethanol>>,
    <<S_cas_short>>,
    <<S_cas_short, S_cas_aspirin>> }

\* POST compound/smiles/property/InChIKey/JSON: cid = 0 stands for a payload
\* without Properties or without a CID
SearchResponses ==
  [kind : FailureKinds, cid : {0}] \cup [kind : {"ok"}, cid : {0, 2244}]

\* GET compound/cid/<cid>/synonyms/JSON
SynonymResponses ==
  [kind : FailureKinds, synonyms : {<<>>}] \cup [kind : {"ok"}, synonyms : SynonymLists]

\* GET opsin.ch.cam.ac.uk/opsin
OpsinResponses == [kind : {"timeout", "non2xx", "ok"}]

CasEnvs == [search : SearchResponses, synonyms : SynonymResponses, opsin : OpsinResponses]

\* every request answered with an empty payload
QuietEnv ==
  [search |-> [kind |-> "ok", cid |-> 0],
   synonyms |-> [kind |-> "ok", synonyms |-> <<>>],
   opsin |-> [kind |-> "ok"]]

----------------------------------------------------------------------------
(* CASService *)

\* a result dict; confidence "absent" stands for a dict without that key
CasResult(cas, src, conf) == [cas_number |-> cas, source |-> src, confidence |-> conf]

NoCas(src) == CasResult(None, src, "absent")

NoneRecord == CasResult(None, "none", "low")

\* a request or a json() call of the try block raises
PubchemRaises(e) ==
  \/ e.search.kind \in RaisingKinds
  \/ e.search.kind = "ok" /\ e.search.cid # 0 /\ e.synonyms.kind \in RaisingKinds

\* lines 49-82, when nothing raises
PubchemTryBlock(s, e) ==
  IF e.search.kind = "ok" /\ e.search.cid # 0 /\ e.synonyms.kind = "ok" THEN
    LET cas_numbers == SelectSeq(e.synonyms.synonyms, _is_valid_cas)
    IN  IF cas_numbers # <<>>
        THEN CasResult(cas_numbers[1], "pubchem", "high")
        ELSE NoCas("pubchem")
  ELSE NoCas("pubchem")

S_not_found == <<"N", "o", "t", " ", "f", "o", "u", "n", "d">>

\* mutant: the except branch answers a placeholder string instead of None
Mut_try_pubchem_placeholder(s, e) ==
  IF PubchemRaises(e) THEN CasResult(S_not_found, "pubchem", "absent")
  ELSE PubchemTryBlock(s, e)

_try_pubchem(s, e) ==
  IF PubchemRaises(e) THEN NoCas("pubchem") ELSE PubchemTryBlock(s, e)

\* chemspider_api_key is None: the request is never made
_try_chemspider(s, e) == NoCas("chemspider")

_try_nist(s, e) == NoCas("nist")

\* the IUPAC name OPSIN answers is never looked up
_try_opsin(s, e) ==
  IF e.opsin.kind \in RaisingKinds THEN NoCas("opsin") ELSE NoCas("opsin")

\* line 154: f"{int(h[:6], 16) % 1000000:06d}-{int(h[6:8], 16) % 100:02d}-{int(h[8:9], 16) % 10}"
FallbackNumber(s) ==
  LET smiles_hash == MD5Hex(s)
  IN  FormatIntPadded(HexToInt(SubSeq(smiles_hash, 1, 6)) % 1000000, 6)
        \o <<"-">> \o FormatIntPadded(HexToInt(SubSeq(smiles_hash, 7, 8)) % 100, 2)
        \o <<"-">> \o FormatInt(HexToInt(SubSeq(smiles_hash, 9, 9)) % 10)

\* mutant: the hashing fails and the except branch of line 165 answers
Mut_fallback_gives_up(s) == NoCas("internal_fallback")

\* mutant: the generated number is tagged like a looked-up one
Mut_fallback_tagged_high(s) == CasResult(FallbackNumber(s), "internal_fallback", "high")

_generate_fallback_cas(s) == CasResult(FallbackNumber(s), "internal_fallback", "very_low")

sources ==
  <<"_try_pubchem", "_try_chemspider", "_try_nist", "_try_opsin", "_generate_fallback_cas">>

source_method(name, s, e) ==
  CASE name = "_try_pubchem" -> _try_pubchem(s, e)
    [] name = "_try_chemspider" -> _try_chemspider(s, e)
    [] name = "_try_nist" -> _try_nist(s, e)
    [] name = "_try_opsin" -> _try_opsin(s, e)
    [] name = "_generate_fallback_cas" -> _generate_fallback_cas(s)

\* mutant: the loop never returns the result of a source
MutHasCasNever(result) == FALSE

\* line 37: result and result.get("cas_number")
HasCas(result) == Truthy(result.cas_number)

\* mutant: the failed source is tried again
MutNextSourceRetries(i) == i

\* the for statement's step to the next source
NextSource(i) == i + 1

RECURSIVE CasLoopFrom(_, _, _)
CasLoopFrom(i, s, e) ==
  IF i > Len(sources) THEN NoneRecord
  ELSE LET result == source_method(sources[i], s, e)
       IN  IF HasCas(result) THEN result ELSE CasLoopFrom(i + 1, s, e)

IsBlank(s) == s = <<>> \/ Strip(s) = <<>>

\* mutant: the sources are called with the string as the caller passed it
Mut_resolver_key_raw(smiles) == smiles

\* line 30: clean_smiles, the string every source method is called with
ResolverKey(smiles) == Strip(smiles)

get_cas_from_smiles(s, e) ==
  IF IsBlank(s) THEN NoneRecord ELSE CasLoopFrom(1, ResolverKey(s), e)

----------------------------------------------------------------------------
(* PubChemService.get_chemical_properties_with_fallback *)

\* The method get_chemical_properties is called at line 52 and defined in no
\* file: it is taken to return the property record of the primary lookup,
\* whose cas_number (base_cas) may be missing.
get_chemical_properties(s, base_cas) ==
  [cas_number |-> base_cas, cas_source |-> "absent", cas_confidence |-> "absent"]

get_chemical_properties_with_fallback(s, e, base_cas) ==
  LET base_properties == get_chemical_properties(s, base_cas)
  IN  IF ~Truthy(base_properties.cas_number) THEN
        LET cas_result == get_cas_from_smiles(s, e)
        IN  IF Truthy(cas_result.cas_number)
            THEN [cas_number |-> cas_result.cas_number,
                  cas_source |-> cas_result.source,
                  cas_confidence |->
                    IF cas_result.confidence = "absent" THEN "medium"
                    ELSE cas_result.confidence]
            ELSE base_properties
      ELSE base_properties

----------------------------------------------------------------------------
(* chemical_utils: canonicalize_smiles, estimate_cas_from_smiles *)

\* mutant: only one leading whitespace character is removed
Mut_canonicalize_one_space(s) ==
  IF s # <<>> /\ Head(s) \in Whitespace THEN Tail(s) ELSE s

canonicalize_smiles(s) == Strip(s)

known_cas_mapping(s) ==
  CASE s = <<"C", "C", "(", "=", "O", ")", "O", "c", "1", "c", "c", "c", "c", "c", "1", "C", "(", "=", "O", ")", "O">>
         -> <<"5", "0", "-", "7", "8", "-", "2">>
    [] s = <<"C", "N", "1", "C", "=", "N", "C", "2", "=", "C", "1", "C", "(", "=", "O", ")", "N", "(", "C", "(", "=", "O", ")", "N", "2", "C", ")", "C">>
         -> <<"5", "8", "-", "0", "8", "-", "2">>
    [] s = <<"C", "C", "O">>
         -> <<"6", "4", "-", "1", "7", "-", "5">>
    [] s = <<"C", "C", "(", "=", "O", ")", "O">>
         -> <<"6", "4", "-", "1", "9", "-", "7">>
    [] s = <<"c", "1", "c", "c", "c", "c", "c", "1">>
         -> <<"7", "1", "-", "4", "3", "-", "2">>
    [] s = <<"C", "1", "C", "C", "C", "C", "C", "1">>
         -> <<"1", "1", "0", "-", "8", "2", "-", "7">>
    [] s = <<"O", "=", "C", "=", "O">>
         -> <<"1", "2", "4", "-", "3", "8", "-", "9">>
    [] s = <<"C", "#", "N">>
         -> <<"7", "4", "-", "9", "0", "-", "8">>
    [] s = <<"C", "C", "C", "C", "C", "C">>
         -> <<"1", "1", "0", "-", "5", "4", "-", "3">>
    [] s = <<"C", "C", "O", "C", "(", "=", "O", ")", "C">>
         -> <<"1", "4", "1", "-", "7", "8", "-", "6">>
    [] OTHER -> None

\* lines 264-269: the pseudo number of a descriptor outside the table
PseudoCas(clean_smiles) ==
  LET hash_hex == SubSeq(MD5Hex(clean_smiles), 1, 6)
  IN  FormatIntPadded(HexToInt(SubSeq(hash_hex, 1, 2)), 2)
        \o <<"-">> \o FormatIntPadded(HexToInt(SubSeq(hash_hex, 3, 4)), 2)
        \o <<"-">> \o FormatInt(HexToInt(SubSeq(hash_hex, 5, 6)))

estimate_cas_from_smiles(s) ==
  LET clean_smiles == Strip(RemoveBackslashes(s))
      canonical == canonicalize_smiles(clean_smiles)
  IN  IF known_cas_mapping(clean_smiles) # None THEN known_cas_mapping(clean_smiles)
      ELSE IF Truthy(canonical) /\ known_cas_mapping(canonical) # None
        THEN known_cas_mapping(canonical)
      ELSE IF Len(clean_smiles) > 5 THEN PseudoCas(clean_smiles)
      ELSE None

----------------------------------------------------------------------------
(* chemical_utils: process_chemical_data, calculate_properties_in_background *)

\* a key a dict does not hold
Absent == <<"Absent">>

LowerLetters ==
  <<"a", "b", "c", "d", "e", "f", "g", "h", "i", "j", "k", "l", "m",
    "n", "o", "p", "q", "r", "s", "t", "u", "v", "w", "x", "y", "z">>

UpperLetters ==
  <<"A", "B", "C", "D", "E", "F", "G", "H", "I", "J", "K", "L", "M",
    "N", "O", "P", "Q", "R", "S", "T", "U", "V", "W", "X", "Y", "Z">>

\* str.upper and str.lower
Upper(s) ==
  LET UpperChar(c) ==
        IF \E i \in 1..26 : LowerLetters[i] = c
          THEN UpperLetters[CHOOSE i \in 1..26 : LowerLetters[i] = c]
          ELSE c
  IN  [i \in 1..Len(s) |-> UpperChar(s[i])]

Lower(s) ==
  LET LowerChar(c) ==
        IF \E i \in 1..26 : UpperLetters[i] = c
          THEN LowerLetters[CHOOSE i \in 1..26 : UpperLetters[i] = c]
          ELSE c
  IN  [i \in 1..Len(s) |-> LowerChar(s[i])]

\* the character class of chemical_pattern (line 135)
ChemicalPatternChars ==
  {"C", "H", "O", "N", "P", "S", "B", "I", "F", "l", "r", "[", "]", "(", ")",
   "=", "#", "@", "+", "-", "\\", "/"}

validate_chemical_structure(smiles) ==
  IF ~Truthy(smiles) THEN FALSE
  ELSE /\ \E i \in 1..Len(smiles) : smiles[i] \in ChemicalPatternChars
       /\ Len(smiles) > 2

S_inchikey_prefix == <<"I", "N", "C", "H", "I", "K", "E", "Y", "-">>

\* f"INCHIKEY-{hexdigest()[:14].upper()}"; None when strip() raises on None
generate_inchikey(smiles) ==
  IF smiles = None THEN None
  ELSE S_inchikey_prefix \o Upper(SubSeq(MD5Hex(Strip(smiles)), 1, 14))

S_placeholder_formula == <<"C", "?", "H", "?", "O", "?">>

\* chemical_utils.calculate_molecular_properties: the placeholder pair
\* ("C?H?O?", 0.0), whatever the descriptor
utils_calculate_molecular_properties(smiles) ==
  [formula |-> S_placeholder_formula, weight |-> 0]

\* the unique ids generate_unique_id can answer (clock and uuid4)
UniqueIds == {"CHEM-1700000000-1A2B3C4D", "CHEM-1700000001-5E6F7A8B"}

process_chemical_data(smiles, name, cas_number, unique_id) ==
  LET calculated == utils_calculate_molecular_properties(smiles)
      has_properties == Truthy(calculated.formula) /\ calculated.weight # 0
  IN  [unique_id |-> unique_id,
       barcode |-> <<>>,
       name |-> name,
       cas_number |-> cas_number,
       smiles |-> smiles,
       canonical_smiles |-> canonicalize_smiles(smiles),
       inchikey |-> generate_inchikey(smiles),
       molecular_formula |-> IF has_properties THEN calculated.formula ELSE <<>>,
       molecular_weight |-> IF has_properties THEN calculated.weight ELSE 0,
       initial_quantity |-> 0,
       initial_unit |-> "g"]

\* mutant: an early return leaves the initial status of line 183
Mut_results_status_left_processing(status, smiles, steps, properties, error) ==
  [status |-> IF status = "error" THEN "processing" ELSE status, smiles |-> smiles,
   steps_completed |-> steps, properties |-> properties, error |-> error]

\* the results dict, built step by step as lines 188-224 do
BackgroundResult(status, smiles, steps, properties, error) ==
  [status |-> status, smiles |-> smiles, steps_completed |-> steps,
   properties |-> properties, error |-> error]

NoProperties ==
  [canonical_smiles |-> Absent, molecular_formula |-> Absent,
   molecular_weight |-> Absent, inchikey |-> Absent]

calculate_properties_in_background(smiles) ==
  LET clean_smiles == Strip(RemoveBackslashes(smiles))
      canonical_smiles == canonicalize_smiles(clean_smiles)
      calculated == utils_calculate_molecular_properties(canonical_smiles)
      has_properties == Truthy(calculated.formula) /\ calculated.weight # 0
      inchikey == generate_inchikey(canonical_smiles)
  IN  IF ~validate_chemical_structure(clean_smiles) THEN
        BackgroundResult("error", smiles, <<"structure_validation">>, NoProperties,
                         "Invalid chemical structure")
      ELSE IF ~Truthy(canonical_smiles) THEN
        BackgroundResult("error", smiles, <<"structure_validation", "canonicalization">>,
                         NoProperties, "Failed to canonicalize SMILES")
      ELSE
        BackgroundResult("completed", smiles,
          <<"structure_validation", "canonicalization", "property_calculation",
            "inchikey_generation", "completed">>,
          [canonical_smiles |-> canonical_smiles,
           molecular_formula |-> IF has_properties THEN calculated.formula ELSE Absent,
           molecular_weight |-> IF has_properties THEN calculated.weight ELSE Absent,
           inchikey |-> IF Truthy(inchikey) THEN inchikey ELSE Absent],
          "none")

----------------------------------------------------------------------------
(* chemical_utils: generate_compound_summary *)

\* sub in s
Contains(s, sub) ==
  \E i \in 1..(Len(s) - Len(sub) + 1) : SubSeq(s, i, i + Len(sub) - 1) = sub

EndsWith(s, sub) ==
  Len(sub) <= Len(s) /\ SubSeq(s, Len(s) - Len(sub) + 1, Len(s)) = sub

\* re.search(pattern, text) for the patterns of the name tables: literal
\* characters, parentheses (which group and match nothing themselves) and an
\* optional final '$' (end of text, or just before a final newline)
RegexSearch(pattern, text) ==
  LET NotGroupSyntax(c) == c \notin {"(", ")", "$"}
      literal == SelectSeq(pattern, NotGroupSyntax)
  IN  IF pattern # <<>> /\ pattern[Len(pattern)] = "$"
        THEN EndsWith(text, literal) \/ EndsWith(text, literal \o <<"\n">>)
        ELSE Contains(text, literal)

\* lines 321-339, in the order of the dict
name_patterns ==
  <<[pattern |-> <<"C", "C", "O", "$">>,
     name |-> <<"E", "t", "h", "a", "n", "o", "l">>],
    [pattern |-> <<"C", "C", "(", "=", "O", ")", "O", "$">>,
     name |-> <<"A", "c", "e", "t", "i", "c", " ", "A", "c", "i", "d">>],
    [pattern |-> <<"C", "C", "(", "=", "O", ")", "O", "c", "1", "c", "c", "c", "c", "c", "1", "C", "(", "=", "O", ")", "O", "$">>,
     name |-> <<"A", "s", "p", "i", "r", "i", "n">>],
    [pattern |-> <<"C", "N", "1", "C", "=", "N", "C", "2", "=", "C", "1", "C", "(", "=", "O", ")", "N", "(", "C", "(", "=", "O", ")", "N", "2", "C", ")", "C", "$">>,
     name |-> <<"C", "a", "f", "f", "e", "i", "n", "e">>],
    [pattern |-> <<"c", "1", "c", "c", "c", "c", "c", "1", "$">>,
     name |-> <<"B", "e", "n", "z", "e", "n", "e">>],
    [pattern |-> <<"C", "1", "C", "C", "C", "C", "C", "1", "$">>,
     name |-> <<"C", "y", "c", "l", "o", "h", "e", "x", "a", "n", "e">>],
    [pattern |-> <<"O", "=", "C", "=", "O", "$">>,
     name |-> <<"C", "a", "r", "b", "o", "n", " ", "D", "i", "o", "x", "i", "d", "e">>],
    [pattern |-> <<"C", "#", "N", "$">>,
     name |-> <<"H", "y", "d", "r", "o", "g", "e", "n", " ", "C", "y", "a", "n", "i", "d", "e">>],
    [pattern |-> <<"C", "C", "C", "C", "C", "C", "$">>,
     name |-> <<"H", "e", "x", "a", "n", "e">>],
    [pattern |-> <<"C", "C", "O", "C", "(", "=", "O", ")", "C", "$">>,
     name |-> <<"E", "t", "h", "y", "l", " ", "A", "c", "e", "t", "a", "t", "e">>],
    [pattern |-> <<"C", "C", "(", "N", ")", "C", "$">>,
     name |-> <<"I", "s", "o", "p", "r", "o", "p", "y", "l", "a", "m", "i", "n", "e">>],
    [pattern |-> <<"C", "(", "=", "O", ")", "O", "C">>,
     name |-> <<"E", "s", "t", "e", "r">>],
    [pattern |-> <<"C", "(", "=", "O", ")", "N">>,
     name |-> <<"A", "m", "i", "d", "e">>],
    [pattern |-> <<"C", "(", "=", "O", ")", "O">>,
     name |-> <<"C", "a", "r", "b", "o", "x", "y", "l", "i", "c", " ", "A", "c", "i", "d">>],
    [pattern |-> <<"N", "C", "(", "=", "O", ")">>,
     name |-> <<"A", "m", "i", "d", "e">>],
    [pattern |-> <<"O", "c", "1", "c", "c", "c", "c", "c", "1">>,
     name |-> <<"P", "h", "e", "n", "o", "l">>],
    [pattern |-> <<"C", "c", "1", "c", "c", "c", "c", "c", "1">>,
     name |-> <<"T", "o", "l", "u", "e", "n", "e", " ", "D", "e", "r", "i", "v", "a", "t", "i", "v", "e">>]>>

\* chemical_utils._guess_compound_name_from_smiles: the first pattern found
_guess_compound_name_from_smiles(smiles) ==
  LET found == {i \in 1..Len(name_patterns) : RegexSearch(name_patterns[i].pattern, smiles)}
  IN  IF found = {} THEN None
      ELSE name_patterns[CHOOSE i \in found : \A j \in found : i <= j].name

_looks_like_systematic_name(name) ==
  LET systematic_indicators ==
        {<<"a", "c", "i", "d">>,
         <<"a", "m", "i", "d", "e">>,
         <<"a", "m", "i", "n", "e">>,
         <<"a", "n", "e">>,
         <<"e", "n", "e">>,
         <<"y", "n", "e">>,
         <<"o", "l">>,
         <<"a", "l">>,
         <<"o", "n", "e">>,
         <<"o", "i", "c">>,
         <<"c", "a", "r", "b", "o", "x", "y", "l", "i", "c">>,
         <<"h", "y", "d", "r", "o", "x", "y">>,
         <<"m", "e", "t", "h", "o", "x", "y">>,
         <<"e", "t", "h", "o", "x", "y">>,
         <<"p", "h", "e", "n", "y", "l">>,
         <<"b", "e", "n", "z">>,
         <<"c", "y", "c", "l", "o">>,
         <<"m", "e", "t", "h", "y", "l">>,
         <<"e", "t", "h", "y", "l">>,
         <<"p", "r", "o", "p", "y", "l">>,
         <<"b", "u", "t", "y", "l">>}
  IN  \E indicator \in systematic_indicators : Contains(Lower(name), indicator)

S_not_found_enter_manually == <<"N", "o", "t", " ", "f", "o", "u", "n", "d", " ", "-", " ", "e", "n", "t", "e", "r", " ", "m", "a", "n", "u", "a", "l", "l", "y">>

\* chemical_utils.validate_and_suggest_name
validate_and_suggest_name(smiles, current_name) ==
  LET S_name_required == <<"C", "h", "e", "m", "i", "c", "a", "l", " ", "n", "a", "m", "e", " ", "i", "s", " ", "r", "e", "q", "u", "i", "r", "e", "d">>
      S_suggested_name == <<"S", "u", "g", "g", "e", "s", "t", "e", "d", " ", "n", "a", "m", "e", ":", " ">>
      S_name_systematic == <<"N", "a", "m", "e", " ", "a", "p", "p", "e", "a", "r", "s", " ", "t", "o", " ", "b", "e", " ", "s", "y", "s", "t", "e", "m", "a", "t", "i", "c", " ", "I", "U", "P", "A", "C", " ", "n", "a", "m", "e">>
      S_name_too_short == <<"C", "h", "e", "m", "i", "c", "a", "l", " ", "n", "a", "m", "e", " ", "s", "e", "e", "m", "s", " ", "t", "o", "o", " ", "s", "h", "o", "r", "t">>
      S_name_only_numbers == <<"C", "h", "e", "m", "i", "c", "a", "l", " ", "n", "a", "m", "e", " ", "s", "h", "o", "u", "l", "d", " ", "n", "o", "t", " ", "b", "e", " ", "j", "u", "s", "t", " ", "n", "u", "m", "b", "e", "r", "s">>
      placeholder_indicators ==
        {<<"u", "n", "k", "n", "o", "w", "n">>,
         <<"n", "o", "t", " ", "f", "o", "u", "n", "d">>,
         <<"e", "n", "t", "e", "r", " ", "m", "a", "n", "u", "a", "l", "l", "y">>,
         <<"c", "h", "e", "m", "i", "c", "a", "l">>,
         <<"c", "o", "m", "p", "o", "u", "n", "d">>}
      clean_smiles == Strip(RemoveBackslashes(smiles))
  IN  IF ~Truthy(current_name) \/ Strip(current_name) = <<>> THEN
        [is_valid |-> FALSE, suggestions |-> <<S_name_required>>, warnings |-> <<>>]
      ELSE
        LET name == Strip(current_name)
            guessed_name == _guess_compound_name_from_smiles(clean_smiles)
            is_placeholder ==
              \E indicator \in placeholder_indicators : Contains(Lower(name), indicator)
        IN  [is_valid |-> TRUE,
             suggestions |->
               (IF is_placeholder /\ Truthy(guessed_name)
                  THEN <<S_suggested_name \o guessed_name>> ELSE <<>>)
               \o (IF _looks_like_systematic_name(name)
                     THEN <<S_name_systematic>> ELSE <<>>),
             warnings |->
               (IF Len(name) < 2 THEN <<S_name_too_short>> ELSE <<>>)
               \o (IF IsDigit(name) THEN <<S_name_only_numbers>> ELSE <<>>)]

\* mutant: two checks passed already count as high
Mut_quality_two_is_high(quality_score) ==
  IF quality_score >= 2 THEN "high" ELSE "low"

\* lines 414-419
DataQuality(quality_score) ==
  IF quality_score = 3 THEN "high"
  ELSE IF quality_score = 2 THEN "medium"
  ELSE "low"

\* lines 406-412
QualityScore(validation) ==
  (IF validation.structure_valid THEN 1 ELSE 0)
    + (IF validation.name_valid THEN 1 ELSE 0)
    + (IF validation.cas_valid THEN 1 ELSE 0)

\* chemical_utils.generate_compound_summary
generate_compound_summary(smiles, name, cas_number) ==
  LET S_cas_format_invalid == <<"C", "A", "S", " ", "n", "u", "m", "b", "e", "r", " ", "f", "o", "r", "m", "a", "t", " ", "a", "p", "p", "e", "a", "r", "s", " ", "i", "n", "v", "a", "l", "i", "d">>
      clean_smiles == Strip(RemoveBackslashes(smiles))
      structure_valid == validate_chemical_structure(clean_smiles)
      calculated == utils_calculate_molecular_properties(clean_smiles)
      has_properties == Truthy(calculated.formula) /\ calculated.weight # 0
      inchikey == generate_inchikey(clean_smiles)
      name_validation == validate_and_suggest_name(clean_smiles, name)
      cas_checked == Truthy(cas_number) /\ cas_number # S_not_found_enter_manually
      cas_valid == cas_checked /\ _validate_cas_format(cas_number)
      validation == [structure_valid |-> structure_valid,
                     name_valid |-> name_validation.is_valid,
                     cas_valid |-> cas_valid]
  IN  [smiles |-> smiles,
       name |-> name,
       cas_number |-> cas_number,
       validation |-> validation,
       suggestions |->
         name_validation.suggestions
           \o (IF cas_checked /\ ~cas_valid THEN <<S_cas_format_invalid>> ELSE <<>>),
       calculated_properties |->
         [molecular_formula |->
            IF structure_valid /\ has_properties THEN calculated.formula ELSE Absent,
          molecular_weight |->
            IF structure_valid /\ has_properties THEN calculated.weight ELSE Absent,
          inchikey |->
            IF structure_valid /\ Truthy(inchikey) THEN inchikey ELSE Absent],
       data_quality |-> DataQuality(QualityScore(validation))]

SummaryNames ==
  LET S_name_aspirin == <<"A", "s", "p", "i", "r", "i", "n">>
      S_name_unknown == <<"U", "n", "k", "n", "o", "w", "n", " ", "c", "o", "m", "p", "o", "u", "n", "d">>
      S_name_number == <<"7">>
  IN  {None, <<>>, S_name_aspirin, S_name_unknown, S_name_number}

SummaryCasNumbers ==
  {None, <<>>, S_cas_aspirin, S_cas_short, S_not_found_enter_manually}

----------------------------------------------------------------------------
(* PubChemService.get_compound_by_smiles *)

\* a dict without keys
EmptyDict == [empty |-> TRUE]

\* bool(d) of a dict or None
DictTruthy(d) == d # NoneDict /\ d # EmptyDict

\* lines 363-369: methods whose body is the statement pass return None
get_compound_by_cid(cid) == NoneDict
_clean_smiles(smiles) == None

\* one entry of props, with a string or with a number as its value
PropS(label, sval) == [urn |-> [label |-> label], value |-> [sval |-> sval]]
PropF(label, fval) == [urn |-> [label |-> label], value |-> [fval |-> fval]]

\* the PC_Compounds structure of lines 147-152 and 193-212
CompoundData(cid, props) ==
  [PC_Compounds |-> <<[id |-> [id |-> [cid |-> cid]], props |-> props]>>]

\* str.count(sub): occurrences that do not overlap, from the left
RECURSIVE Count(_, _)
Count(s, sub) ==
  IF Len(s) < Len(sub) THEN 0
  ELSE IF SubSeq(s, 1, Len(sub)) = sub
         THEN 1 + Count(SubSeq(s, Len(sub) + 1, Len(s)), sub)
         ELSE Count(Tail(s), sub)

\* lines 218-230, in the order of the dict
compound_name_patterns ==
  <<[pattern |-> <<"C", "C", "O", "$">>,
     name |-> <<"E", "t", "h", "a", "n", "o", "l">>],
    [pattern |-> <<"C", "C", "(", "=", "O", ")", "O", "$">>,
     name |-> <<"A", "c", "e", "t", "i", "c", " ", "A", "c", "i", "d">>],
    [pattern |-> <<"C", "C", "(", "=", "O", ")", "O", "c", "1", "c", "c", "c", "c", "c", "1", "C", "(", "=", "O", ")", "O", "$">>,
     name |-> <<"A", "s", "p", "i", "r", "i", "n">>],
    [pattern |-> <<"C", "N", "1", "C", "=", "N", "C", "2", "=", "C", "1", "C", "(", "=", "O", ")", "N", "(", "C", "(", "=", "O", ")", "N", "2", "C", ")", "C", "$">>,
     name |-> <<"C", "a", "f", "f", "e", "i", "n", "e">>],
    [pattern |-> <<"c", "1", "c", "c", "c", "c", "c", "1", "$">>,
     name |-> <<"B", "e", "n", "z", "e", "n", "e">>],
    [pattern |-> <<"C", "1", "C", "C", "C", "C", "C", "1", "$">>,
     name |-> <<"C", "y", "c", "l", "o", "h", "e", "x", "a", "n", "e">>],
    [pattern |-> <<"O", "=", "C", "=", "O", "$">>,
     name |-> <<"C", "a", "r", "b", "o", "n", " ", "D", "i", "o", "x", "i", "d", "e">>],
    [pattern |-> <<"C", "#", "N", "$">>,
     name |-> <<"H", "y", "d", "r", "o", "g", "e", "n", " ", "C", "y", "a", "n", "i", "d", "e">>],
    [pattern |-> <<"C", "C", "C", "C", "C", "C", "$">>,
     name |-> <<"H", "e", "x", "a", "n", "e">>],
    [pattern |-> <<"C", "C", "O", "C", "(", "=", "O", ")", "C", "$">>,
     name |-> <<"E", "t", "h", "y", "l", " ", "A", "c", "e", "t", "a", "t", "e">>],
    [pattern |-> <<"C", "C", "(", "N", ")", "C", "$">>,
     name |-> <<"I", "s", "o", "p", "r", "o", "p", "y", "l", "a", "m", "i", "n", "e">>]>>

\* PubChemService._guess_compound_name
_guess_compound_name(smiles) ==
  LET found == {i \in 1..Len(compound_name_patterns) :
                  RegexSearch(compound_name_patterns[i].pattern, smiles)}
      carboxyl == <<"C", "(", "=", "O", ")", "O">>
      amide_group == <<"C", "(", "=", "O", ")", "N">>
      carbonyl == <<"C", "=", "O">>
      phenoxy == <<"O", "c", "1", "c", "c", "c", "c", "c", "1">>
      benzene == <<"c", "1", "c", "c", "c", "c", "c", "1">>
      triple == <<"C", "#", "C">>
      double == <<"C", "=", "C">>
      benzoic_acid_derivative == <<"B", "e", "n", "z", "o", "i", "c", " ", "A", "c", "i", "d", " ", "D", "e", "r", "i", "v", "a", "t", "i", "v", "e">>
      carboxylic_acid == <<"C", "a", "r", "b", "o", "x", "y", "l", "i", "c", " ", "A", "c", "i", "d">>
      amide == <<"A", "m", "i", "d", "e">>
      amide_compound == <<"A", "m", "i", "d", "e", " ", "C", "o", "m", "p", "o", "u", "n", "d">>
      phenol_derivative == <<"P", "h", "e", "n", "o", "l", " ", "D", "e", "r", "i", "v", "a", "t", "i", "v", "e">>
      aromatic_compound == <<"A", "r", "o", "m", "a", "t", "i", "c", " ", "C", "o", "m", "p", "o", "u", "n", "d">>
      alkyne == <<"A", "l", "k", "y", "n", "e">>
      alkene == <<"A", "l", "k", "e", "n", "e">>
  IN  IF found # {}
        THEN compound_name_patterns[CHOOSE i \in found : \A j \in found : i <= j].name
      ELSE IF Contains(smiles, carboxyl) /\ Contains(smiles, benzene)
        THEN benzoic_acid_derivative
      ELSE IF Contains(smiles, carboxyl) THEN carboxylic_acid
      ELSE IF Contains(smiles, amide_group) THEN amide
      ELSE IF Contains(smiles, <<"N">>) /\ Contains(smiles, carbonyl)
        THEN amide_compound
      ELSE IF Contains(smiles, phenoxy) THEN phenol_derivative
      ELSE IF Contains(smiles, benzene) THEN aromatic_compound
      ELSE IF Contains(smiles, triple) THEN alkyne
      ELSE IF Contains(smiles, double) THEN alkene
      ELSE None

\* PubChemService._generate_systematic_name
_generate_systematic_name(smiles) ==
  LET carbon_count ==
        Count(smiles, <<"C">>) - Count(smiles, <<"C", "l">>) - Count(smiles, <<"C", "c">>)
      alkane_names ==
        <<<<"M", "e", "t", "h", "a", "n", "e">>,
          <<"E", "t", "h", "a", "n", "e">>,
          <<"P", "r", "o", "p", "a", "n", "e">>,
          <<"B", "u", "t", "a", "n", "e">>,
          <<"P", "e", "n", "t", "a", "n", "e">>,
          <<"H", "e", "x", "a", "n", "e">>,
          <<"H", "e", "p", "t", "a", "n", "e">>,
          <<"O", "c", "t", "a", "n", "e">>>>
      carboxyl == <<"C", "(", "=", "O", ")", "O">>
      amide_group == <<"C", "(", "=", "O", ")", "N">>
      carbonyl_group == <<"C", "(", "=", "O", ")">>
      phenoxy == <<"O", "c", "1", "c", "c", "c", "c", "c", "1">>
      carboxylic_acid == <<"C", "a", "r", "b", "o", "x", "y", "l", "i", "c", " ", "A", "c", "i", "d">>
      amide == <<"A", "m", "i", "d", "e">>
      ester == <<"E", "s", "t", "e", "r">>
      amine_compound == <<"A", "m", "i", "n", "e", " ", "C", "o", "m", "p", "o", "u", "n", "d">>
      oxygen_compound == <<"O", "x", "y", "g", "e", "n", "-", "c", "o", "n", "t", "a", "i", "n", "i", "n", "g", " ", "C", "o", "m", "p", "o", "u", "n", "d">>
      organic_compound == <<"O", "r", "g", "a", "n", "i", "c", " ", "C", "o", "m", "p", "o", "u", "n", "d">>
  IN  IF /\ carbon_count <= 8
         /\ ~Contains(smiles, <<"c">>)
         /\ ~Contains(smiles, <<"=">>)
         /\ ~Contains(smiles, <<"#">>)
         /\ carbon_count \in 1..Len(alkane_names)
        THEN alkane_names[carbon_count]
      ELSE IF Contains(smiles, carboxyl) THEN carboxylic_acid
      ELSE IF Contains(smiles, amide_group) THEN amide
      ELSE IF Contains(smiles, phenoxy) /\ Count(smiles, carbonyl_group) = 1
        THEN ester
      ELSE IF Contains(smiles, <<"N">>) /\ Count(smiles, <<"C">>) > 2
        THEN amine_compound
      ELSE IF Contains(smiles, <<"O">>) /\ Contains(smiles, <<"C">>)
        THEN oxygen_compound
      ELSE organic_compound

\* PubChemService._generate_basic_compound_data
_generate_basic_compound_data(smiles) ==
  LET name == _guess_compound_name(smiles)
      systematic_name == _generate_systematic_name(smiles)
      unknown_compound == <<"U", "n", "k", "n", "o", "w", "n", " ", "C", "o", "m", "p", "o", "u", "n", "d">>
      to_be_calculated == <<"T", "o", " ", "b", "e", " ", "c", "a", "l", "c", "u", "l", "a", "t", "e", "d">>
  IN  CompoundData(0,
        <<PropS("IUPAC Name",
                IF Truthy(name) THEN name
                ELSE IF Truthy(systematic_name) THEN systematic_name
                ELSE unknown_compound),
          PropS("Molecular Formula", to_be_calculated),
          PropS("CAS Registry Number", S_not_found_enter_manually)>>)

\* a record of the primary database
PrimaryRecord == CompoundData(2244, <<PropS("IUPAC Name", S_aspirin)>>)

\* What the requests of one call answer.
\* fastidentity: GET compound/fastidentity/smiles/<smiles>/JSON, cid = 0 for a
\* payload without IdentifierList or with an empty CID list;
\* direct: GET compound/smiles/<smiles>/JSON;
\* cir_name, cir_cas, cir_formula, cir_mw: the four GET requests of CIR
CompoundEnvs ==
  LET cir_name == <<"e", "t", "h", "a", "n", "o", "l">>
      cir_page == <<"<", "h", "1", ">", "P", "a", "g", "e", " ", "N", "o", "t", "F", "o", "u", "n", "d", "<", "/", "h", "1", ">">>
      cir_two_cas == <<"6", "4", "-", "1", "7", "-", "5", "\n", "8", "0", "0", "0", "-", "1", "6", "-", "6">>
      cir_formula == <<"C", "2", "H", "6", "O">>
      cir_weight == <<"4", "6", ".", "0", "7">>
      cir_no_weight == <<"n", "/", "a">>
  IN  [fastidentity :
         [kind : {"timeout", "non2xx"}, cid : {0}] \cup [kind : {"ok"}, cid : {0, 2244}],
       direct :
         [kind : {"timeout", "non2xx"}, json : {EmptyDict}]
           \cup [kind : {"ok"}, json : {EmptyDict, PrimaryRecord}],
       cir_name :
         [kind : {"timeout", "non2xx"}, text : {<<>>}]
           \cup [kind : {"ok"}, text : {cir_name, cir_page}],
       cir_cas :
         [kind : {"non2xx"}, text : {<<>>}] \cup [kind : {"ok"}, text : {cir_two_cas, <<>>}],
       cir_formula :
         [kind : {"non2xx"}, text : {<<>>}] \cup [kind : {"ok"}, text : {cir_formula}],
       cir_mw :
         [kind : {"timeout"}, text : {<<>>}]
           \cup [kind : {"ok"}, text : {cir_weight, cir_no_weight}]]

\* PubChemService._get_compound_by_smiles_pubchem
_get_compound_by_smiles_pubchem(smiles, e) ==
  IF e.fastidentity.kind \in RaisingKinds THEN NoneDict
  ELSE IF e.fastidentity.kind = "ok" /\ e.fastidentity.cid # 0
    THEN get_compound_by_cid(e.fastidentity.cid)
  ELSE IF e.direct.kind \in RaisingKinds THEN NoneDict
  ELSE IF e.direct.kind = "ok" THEN e.direct.json
  ELSE NoneDict

\* text and "NotFound" not in text
CirFound(text) == text # <<>> /\ ~Contains(text, <<"N", "o", "t", "F", "o", "u", "n", "d">>)

\* float(text) for digits with at most one point: the number in hundredths
\* (further decimals cut), or a ValueError
ParseFloat(text) ==
  LET parts == Split(text, ".")
      whole == parts[1]
      frac == IF Len(parts) = 2 THEN parts[2] ELSE <<>>
      frac2 == SubSeq(frac \o <<"0", "0">>, 1, 2)
      AllDigits(s) == \A i \in 1..Len(s) : s[i] \in DigitChars
      DecToInt(s) ==
        LET value[i \in 0..Len(s)] ==
              IF i = 0 THEN 0 ELSE 10 * value[i - 1] + HexVal(s[i])
        IN  value[Len(s)]
  IN  IF /\ Len(parts) \in {1, 2}
         /\ AllDigits(whole) /\ AllDigits(frac)
         /\ whole \o frac # <<>>
        THEN [raised |-> FALSE, hundredths |-> 100 * DecToInt(whole) + DecToInt(frac2)]
        ELSE [raised |-> TRUE, hundredths |-> 0]

\* lines 93-178 when no request raises: name, cas_number, formula and
\* molecular_weight (0 for None), and the record built from them
CirTryBlock(smiles, e) ==
  LET name_text == Strip(e.cir_name.text)
      name == IF e.cir_name.kind = "ok" /\ CirFound(name_text) THEN name_text ELSE None
      cas_text == Strip(e.cir_cas.text)
      cas_number == IF e.cir_cas.kind = "ok" /\ CirFound(cas_text)
                      THEN Split(cas_text, "\n")[1] ELSE None
      formula_text == Strip(e.cir_formula.text)
      formula == IF e.cir_formula.kind = "ok" /\ CirFound(formula_text)
                   THEN formula_text ELSE None
      weight_text == Strip(e.cir_mw.text)
      parsed == ParseFloat(weight_text)
      molecular_weight ==
        IF e.cir_mw.kind = "ok" /\ CirFound(weight_text) /\ ~parsed.raised
          THEN parsed.hundredths ELSE 0
  IN  IF Truthy(name) \/ Truthy(cas_number) \/ Truthy(formula)
        THEN CompoundData(0,
               (IF Truthy(name) THEN <<PropS("IUPAC Name", name)>> ELSE <<>>)
               \o (IF Truthy(cas_number)
                     THEN <<PropS("CAS Registry Number", cas_number)>> ELSE <<>>)
               \o (IF Truthy(formula)
                     THEN <<PropS("Molecular Formula", formula)>> ELSE <<>>)
               \o (IF molecular_weight # 0
                     THEN <<PropF("Molecular Weight", molecular_weight)>> ELSE <<>>))
        ELSE NoneDict

\* PubChemService._get_compound_by_smiles_cir
_get_compound_by_smiles_cir(smiles, e) ==
  IF \E r \in {e.cir_name, e.cir_cas, e.cir_formula, e.cir_mw} : r.kind \in RaisingKinds
    THEN NoneDict
    ELSE CirTryBlock(smiles, e)

\* PubChemService.get_compound_by_smiles; no request is made before the
\* return of line 27, and the lookups of lines 30-41 catch what their
\* requests raise, so the except branch of line 43 is never entered
get_compound_by_smiles(smiles, e) ==
  LET clean_smiles == _clean_smiles(smiles)
  IN  IF ~Truthy(clean_smiles) THEN NoneDict
      ELSE LET primary == _get_compound_by_smiles_pubchem(clean_smiles, e)
               cir == _get_compound_by_smiles_cir(clean_smiles, e)
           IN  IF DictTruthy(primary) THEN primary
               ELSE IF DictTruthy(cir) THEN cir
               ELSE _generate_basic_compound_data(clean_smiles)

\* PubChemService.extract_compound_info: the dict of line 326, whose keys are
\* the entries of info that are not None (a function on those keys)
extract_compound_info(compound_data) ==
  IF ~DictTruthy(compound_data) \/ "PC_Compounds" \notin DOMAIN compound_data
    THEN EmptyDict
    ELSE
      LET compound == compound_data.PC_Compounds[1]
          cid == compound.id.id.cid
          props == compound.props
          label_text(label) ==
            CASE label = "IUPAC Name" -> <<"I", "U", "P", "A", "C", " ", "N", "a", "m", "e">>
              [] label = "CAS Registry Number" -> <<"C", "A", "S", " ", "R", "e", "g", "i", "s", "t", "r", "y", " ", "N", "u", "m", "b", "e", "r">>
              [] label = "Molecular Formula" -> <<"M", "o", "l", "e", "c", "u", "l", "a", "r", " ", "F", "o", "r", "m", "u", "l", "a">>
              [] label = "Molecular Weight" -> <<"M", "o", "l", "e", "c", "u", "l", "a", "r", " ", "W", "e", "i", "g", "h", "t">>
          label(prop) == Lower(label_text(prop.urn.label))
          sval(prop) == IF "sval" \in DOMAIN prop.value THEN prop.value.sval ELSE None
          fval(prop) == IF "fval" \in DOMAIN prop.value THEN prop.value.fval ELSE 0
          name_keywords == {<<"i", "u", "p", "a", "c", " ", "n", "a", "m", "e">>,
                            <<"p", "r", "e", "f", "e", "r", "r", "e", "d", " ", "n", "a", "m", "e">>,
                            <<"c", "h", "e", "m", "i", "c", "a", "l", " ", "n", "a", "m", "e">>}
          cas_keywords == {<<"c", "a", "s">>, <<"r", "e", "g", "i", "s", "t", "r", "y", " ", "n", "u", "m", "b", "e", "r">>}
          \* the entry of info that the branch taken at lines 309-321 assigns
          assigned(prop) ==
            IF \E k \in name_keywords : Contains(label(prop), k)
              THEN IF Truthy(sval(prop)) THEN "name" ELSE "none"
            ELSE IF Contains(label(prop), <<"c", "a", "n", "o", "n", "i", "c", "a", "l", " ", "s", "m", "i", "l", "e", "s">>) /\ Truthy(sval(prop))
              THEN "canonical_smiles"
            ELSE IF Contains(label(prop), <<"m", "o", "l", "e", "c", "u", "l", "a", "r", " ", "f", "o", "r", "m", "u", "l", "a">>) /\ Truthy(sval(prop))
              THEN "molecular_formula"
            ELSE IF Contains(label(prop), <<"m", "o", "l", "e", "c", "u", "l", "a", "r", " ", "w", "e", "i", "g", "h", "t">>) /\ fval(prop) # 0
              THEN "molecular_weight"
            ELSE IF \E k \in cas_keywords : Contains(label(prop), k)
              THEN IF Truthy(sval(prop)) THEN "cas_number" ELSE "none"
            ELSE "none"
          at(key) == {i \in 1..Len(props) : assigned(props[i]) = key}
          last(key) == props[CHOOSE i \in at(key) : \A j \in at(key) : j <= i]
          name == IF at("name") = {} THEN None ELSE sval(last("name"))
          source ==
            IF cid = 0
              THEN IF Truthy(name) /\ ~Contains(name, <<"U", "n", "k", "n", "o", "w", "n">>)
                     THEN "cir" ELSE "generated"
              ELSE "pubchem"
          keys == {"cid", "source"}
                    \cup {k \in {"name", "canonical_smiles", "molecular_formula",
                                 "molecular_weight", "cas_number"} : at(k) # {}}
                    \cup (IF at("canonical_smiles") # {} THEN {"smiles"} ELSE {})
      IN  [k \in keys |->
             CASE k = "cid" -> cid
               [] k = "source" -> source
               [] k = "name" -> name
               [] k = "smiles" -> sval(last("canonical_smiles"))
               [] k = "molecular_weight" -> fval(last("molecular_weight"))
               [] OTHER -> sval(last(k))]

----------------------------------------------------------------------------
(* services/molecular_service.py *)

\* the structure toolkit of the running process and what its parser answers
ToolkitStates ==
  [rdkit_available : {FALSE}, parse : {"none"}]
    \cup [rdkit_available : {TRUE}, parse : {"mol", "none", "raises"}]

\* The class body of MolecularService ends at line 42: the def of line 44
\* starts at column 0, so calculate_molecular_properties is a function of the
\* module, and the defs indented under it (lines 113-317) are statements
\* after its last return.  These are the methods an instance has.
MolecularServiceMethods == {"__init__", "_initialize_rdkit"}

\* an exception leaving a call
RaisedError(kind, attribute) == [raised |-> TRUE, error |-> kind, attribute |-> attribute]

\* the call <instance>.<name>(...): its value, or the AttributeError of the
\* attribute lookup
InstanceCall(name, value) ==
  IF name \in MolecularServiceMethods THEN value
  ELSE RaisedError("AttributeError", name)

\* f"C{carbon_count}" if carbon_count > 1 else "C", nothing for a zero count
FormulaPart(symbol, count) ==
  IF count > 1 THEN <<symbol>> \o FormatInt(count)
  ELSE IF count > 0 THEN <<symbol>>
  ELSE <<>>

\* lines 113-168: the body of the fallback estimator
_calculate_properties_fallback(smiles) ==
  LET CountChar(s, c) == Cardinality({i \in 1..Len(s) : s[i] = c})
      CountPair(s, a, b) == Cardinality({i \in 1..(Len(s) - 1) : s[i] = a /\ s[i + 1] = b})
      S_unknown == <<"U", "n", "k", "n", "o", "w", "n">>
      S_fake_prefix == <<"F", "A", "K", "E", "-">>
      S_inchi_prefix == <<"I", "n", "C", "h", "I", "=", "1", "S", "/">>
      carbon_count == CountChar(smiles, "C") - CountPair(smiles, "C", "l")
      hydrogen_count == CountChar(smiles, "H")
      oxygen_count == CountChar(smiles, "O")
      nitrogen_count == CountChar(smiles, "N")
      formula_parts == FormulaPart("C", carbon_count) \o FormulaPart("H", hydrogen_count)
                         \o FormulaPart("O", oxygen_count) \o FormulaPart("N", nitrogen_count)
      molecular_formula == IF formula_parts # <<>> THEN formula_parts ELSE S_unknown
  IN  [raised |-> FALSE,
       canonical_smiles |-> smiles,
       molecular_formula |-> molecular_formula,
       molecular_weight |-> carbon_count * 12 + hydrogen_count * 1
                              + oxygen_count * 16 + nitrogen_count * 14,
       inchi |-> S_inchi_prefix \o molecular_formula,
       inchikey |-> S_fake_prefix \o Upper(SubSeq(MD5Hex(smiles), 1, 14)),
       logp |-> 0, tpsa |-> 0,
       hydrogen_bond_donors |-> 0, hydrogen_bond_acceptors |-> 0,
       rotatable_bonds |-> 0,
       heavy_atom_count |-> carbon_count + oxygen_count + nitrogen_count,
       formal_charge |-> 0,
       atom_count |-> carbon_count + hydrogen_count + oxygen_count + nitrogen_count,
       ring_count |-> 0,
       aromatic_rings |-> IF CountChar(smiles, "c") > 0 THEN 1 ELSE 0,
       calculation_source |-> "fallback"]

\* Chem.MolToSmiles(mol, canonical=True): one string per structure
ToolkitCanonical(clean_smiles) ==
  IF clean_smiles = D_ethanol_rev THEN D_ethanol ELSE clean_smiles

\* lines 59-102: the property set of a parsed molecule; the numeric
\* descriptors are the toolkit's and are not computed here
ToolkitProperties(clean_smiles) ==
  [raised |-> FALSE,
   canonical_smiles |-> ToolkitCanonical(clean_smiles),
   calculation_source |-> "rdkit",
   is_valid |-> TRUE]

\* lines 51-57: the try block up to the parse
ToolkitTryBlock(smiles, tk) ==
  LET clean_smiles == Strip(smiles)
  IN  IF tk.parse = "raises" THEN RaisedError("toolkit", "none")
      ELSE IF tk.parse = "none"
        THEN InstanceCall("_calculate_properties_fallback",
                          _calculate_properties_fallback(clean_smiles))
      ELSE ToolkitProperties(clean_smiles)

\* lines 44-111: the function calculate_molecular_properties(self, smiles),
\* self being a MolecularService
molecular_service_calculate(s, tk) ==
  IF ~tk.rdkit_available
    THEN InstanceCall("_calculate_properties_fallback", _calculate_properties_fallback(s))
  ELSE IF ToolkitTryBlock(s, tk).raised
    THEN InstanceCall("_calculate_properties_fallback", _calculate_properties_fallback(s))
  ELSE ToolkitTryBlock(s, tk)

----------------------------------------------------------------------------
(* api/molecular.py: POST /calculate-properties *)

Raised(code) == [raised |-> TRUE, status_code |-> code]
Responded(code) == [raised |-> FALSE, status_code |-> code]

\* lines 26-42: the try block, ending in a response or a raised HTTPException
HandlerTryBlock(s, tk) ==
  IF IsBlank(s) THEN Raised(400)
  ELSE LET clean_smiles == Strip(RemoveBackslashes(s))
           properties == InstanceCall("calculate_molecular_properties",
                                      molecular_service_calculate(clean_smiles, tk))
       IN  IF properties.raised THEN properties
           ELSE IF properties = NoneDict THEN Raised(400)
           ELSE Responded(200)

\* lines 44-46: except Exception catches the HTTPException of the try block too
HandlerExcept(outcome) == IF outcome.raised THEN Raised(500) ELSE outcome

calculate_molecular_properties_endpoint(s, tk) == HandlerExcept(HandlerTryBlock(s, tk))

----------------------------------------------------------------------------
(* The caller: one call at a time, executed step by step *)

\* cap of the history variable; the loop makes at most Len(sources) calls
MaxAttempts == 5

\* a returned value is filed under the name of the entry point that returned
\* it, so that values of different entry points are never of one shape
Returned(entry, value) == [e \in {entry} |-> value]

\* the value the caller holds (NoRet while no call has returned)
ret == IF op \in DOMAIN returned THEN returned[op] ELSE NoRet

Init ==
  /\ pc = "idle"
  /\ op = "none"
  /\ arg = <<>>
  /\ env = QuietEnv
  /\ clean = <<>>
  /\ idx = 1
  /\ attempts = <<>>
  /\ returned = Returned("none", NoRet)
  /\ EmptyTables

\* a call of cas_service.get_cas_from_smiles(smiles)
CasCall ==
  /\ pc = "idle"
  /\ \E s \in Descriptors, e \in CasEnvs :
       /\ arg' = s
       /\ env' = e
  /\ op' = "get_cas_from_smiles"
  /\ pc' = "cas_validate"
  /\ UNCHANGED <<clean, idx, attempts, returned>>
  /\ UNCHANGED dbvars

\* lines 27-30
CasValidate ==
  /\ pc = "cas_validate"
  /\ IF IsBlank(arg)
       THEN /\ returned' = Returned(op, NoneRecord)
            /\ pc' = "done"
            /\ UNCHANGED clean
       ELSE /\ clean' = ResolverKey(arg)
            /\ pc' = "cas_loop"
            /\ UNCHANGED returned
  /\ UNCHANGED <<op, arg, env, idx, attempts>>
  /\ UNCHANGED dbvars

\* one turn of the loop of lines 34-42, or the return of line 44 after it
CasLoop ==
  /\ pc = "cas_loop"
  /\ IF idx > Len(sources)
       THEN /\ returned' = Returned(op, NoneRecord)
            /\ pc' = "done"
            /\ UNCHANGED <<idx, attempts>>
       ELSE LET result == source_method(sources[idx], clean, env)
            IN  /\ attempts' =
                     IF Len(attempts) < MaxAttempts
                       THEN Append(attempts, [source |-> sources[idx], key |-> clean,
                                             result |-> result])
                       ELSE attempts
                /\ IF HasCas(result)
                     THEN /\ returned' = Returned(op, result)
                          /\ pc' = "done"
                          /\ UNCHANGED idx
                     ELSE /\ idx' = NextSource(idx)
                          /\ UNCHANGED <<returned, pc>>
  /\ UNCHANGED <<op, arg, env, clean>>
  /\ UNCHANGED dbvars

\* the records the three builders of get_compound_by_smiles make for the
\* descriptor s, each with the builder that made it
BuiltRecords(s) ==
  {[built_by |-> "pubchem", compound_data |-> _get_compound_by_smiles_pubchem(s, e)] :
     e \in CompoundEnvs}
  \cup {[built_by |-> "cir", compound_data |-> _get_compound_by_smiles_cir(s, e)] :
          e \in CompoundEnvs}
  \cup {[built_by |-> "generated", compound_data |-> _generate_basic_compound_data(s)]}

\* a call of pubchem_service.extract_compound_info(compound_data) with the
\* record one of the three builders of get_compound_by_smiles made
ExtractCompoundInfoCall ==
  /\ pc = "idle"
  /\ \E s \in Descriptors :
       \E built \in BuiltRecords(s) :
         /\ arg' = s
         /\ env' = built
         /\ returned' = Returned("extract_compound_info",
                                 extract_compound_info(built.compound_data))
  /\ op' = "extract_compound_info"
  /\ pc' = "done"
  /\ UNCHANGED <<clean, idx, attempts>>
  /\ UNCHANGED dbvars

\* the descriptors handed to the name guessers: the ones above and the
\* descriptors written in the name tables (a pattern without its final '$')
NameDescriptors ==
  Descriptors
    \cup {SelectSeq(name_patterns[i].pattern, LAMBDA c : c # "$") :
            i \in 1..Len(name_patterns)}

\* a call of PubChemService._guess_compound_name(smiles)
GuessCompoundNameCall ==
  /\ pc = "idle"
  /\ \E s \in NameDescriptors :
       /\ arg' = s
       /\ returned' = Returned("_guess_compound_name", _guess_compound_name(s))
  /\ op' = "_guess_compound_name"
  /\ pc' = "done"
  /\ UNCHANGED <<env, clean, idx, attempts>>
  /\ UNCHANGED dbvars

\* a call of chemical_utils._guess_compound_name_from_smiles(smiles)
GuessNameFromSmilesCall ==
  /\ pc = "idle"
  /\ \E s \in NameDescriptors :
       /\ arg' = s
       /\ returned' = Returned("_guess_compound_name_from_smiles",
                               _guess_compound_name_from_smiles(s))
  /\ op' = "_guess_compound_name_from_smiles"
  /\ pc' = "done"
  /\ UNCHANGED <<env, clean, idx, attempts>>
  /\ UNCHANGED dbvars

\* a call of PubChemService._get_compound_by_smiles_cir(smiles)
CirLookupCall ==
  /\ pc = "idle"
  /\ \E s \in {D_ethanol, D_aspirin}, e \in CompoundEnvs :
       /\ arg' = s
       /\ env' = e
       /\ returned' = Returned("_get_compound_by_smiles_cir",
                               _get_compound_by_smiles_cir(s, e))
  /\ op' = "_get_compound_by_smiles_cir"
  /\ pc' = "done"
  /\ UNCHANGED <<clean, idx, attempts>>
  /\ UNCHANGED dbvars

\* the caller takes the value and is free for the next call
Return ==
  /\ pc = "done"
  /\ pc' = "idle"
  /\ op' = "none"
  /\ arg' = <<>>
  /\ env' = QuietEnv
  /\ clean' = <<>>
  /\ idx' = 1
  /\ attempts' = <<>>
  /\ returned' = Returned("none", NoRet)
  /\ UNCHANGED dbvars

\* a call of pubchem_service.get_chemical_properties_with_fallback(smiles)
PropertiesWithFallbackCall ==
  /\ pc = "idle"
  /\ \E s \in Descriptors, e \in CasEnvs, b \in {None, S_cas_ethanol} :
       /\ arg' = s
       /\ env' = [cas |-> e, base_cas |-> b]
       /\ returned' = Returned("get_chemical_properties_with_fallback", get_chemical_properties_with_fallback(s, e, b))
  /\ op' = "get_chemical_properties_with_fallback"
  /\ pc' = "done"
  /\ UNCHANGED <<clean, idx, attempts>>
  /\ UNCHANGED dbvars

\* a call of estimate_cas_from_smiles(smiles)
EstimateCall ==
  /\ pc = "idle"
  /\ \E s \in Descriptors :
       /\ arg' = s
       /\ clean' = Strip(RemoveBackslashes(s))
       /\ returned' = Returned("estimate_cas_from_smiles", estimate_cas_from_smiles(s))
  /\ op' = "estimate_cas_from_smiles"
  /\ pc' = "done"
  /\ UNCHANGED <<env, idx, attempts>>
  /\ UNCHANGED dbvars

\* a call of CASService._is_valid_cas(cas_string)
IsValidCasCall ==
  /\ pc = "idle"
  /\ \E c \in CasCandidates :
       /\ arg' = c
       /\ returned' = Returned("_is_valid_cas", _is_valid_cas(c))
  /\ op' = "_is_valid_cas"
  /\ pc' = "done"
  /\ UNCHANGED <<env, clean, idx, attempts>>
  /\ UNCHANGED dbvars

\* a call of chemical_utils._validate_cas_format(cas_number)
ValidateCasFormatCall ==
  /\ pc = "idle"
  /\ \E c \in CasCandidates :
       /\ arg' = c
       /\ returned' = Returned("_validate_cas_format", _validate_cas_format(c))
  /\ op' = "_validate_cas_format"
  /\ pc' = "done"
  /\ UNCHANGED <<env, clean, idx, attempts>>
  /\ UNCHANGED dbvars

\* a request POST /calculate-properties?smiles=...
CalculatePropertiesRequest ==
  /\ pc = "idle"
  /\ \E s \in Descriptors, tk \in ToolkitStates :
       /\ arg' = s
       /\ env' = [toolkit |-> tk]
       /\ returned' = Returned("calculate_molecular_properties", calculate_molecular_properties_endpoint(s, tk))
  /\ op' = "calculate_molecular_properties"
  /\ pc' = "done"
  /\ UNCHANGED <<clean, idx, attempts>>
  /\ UNCHANGED dbvars

\* a call of chemical_utils.canonicalize_smiles(smiles)
CanonicalizeCall ==
  /\ pc = "idle"
  /\ \E s \in UtilDescriptors :
       /\ arg' = s
       /\ returned' = Returned("canonicalize_smiles", canonicalize_smiles(s))
  /\ op' = "canonicalize_smiles"
  /\ pc' = "done"
  /\ UNCHANGED <<env, clean, idx, attempts>>
  /\ UNCHANGED dbvars

\* a call of chemical_utils.process_chemical_data(smiles, name, cas_number)
ProcessChemicalDataCall ==
  /\ pc = "idle"
  /\ \E s \in UtilDescriptors, n \in {S_aspirin, <<>>}, c \in {S_cas_aspirin, <<>>},
        u \in UniqueIds :
       /\ arg' = s
       /\ env' = [name |-> n, cas_number |-> c, unique_id |-> u]
       /\ returned' = Returned("process_chemical_data", process_chemical_data(s, n, c, u))
  /\ op' = "process_chemical_data"
  /\ pc' = "done"
  /\ UNCHANGED <<clean, idx, attempts>>
  /\ UNCHANGED dbvars

\* a call of chemical_utils.calculate_properties_in_background(smiles)
BackgroundCall ==
  /\ pc = "idle"
  /\ \E s \in UtilDescriptors :
       /\ arg' = s
       /\ clean' = Strip(RemoveBackslashes(s))
       /\ returned' = Returned("calculate_properties_in_background", calculate_properties_in_background(s))
  /\ op' = "calculate_properties_in_background"
  /\ pc' = "done"
  /\ UNCHANGED <<env, idx, attempts>>
  /\ UNCHANGED dbvars

\* a call of the function of molecular_service.py lines 44-111 on the
\* service instance
MolecularCalculateCall ==
  /\ pc = "idle"
  /\ \E s \in UtilDescriptors, tk \in ToolkitStates :
       /\ tk.parse = "mol" => Strip(s) \notin {<<>>, D_noise}
       /\ arg' = s
       /\ env' = [toolkit |-> tk]
       /\ returned' = Returned("molecular_service_calculate", molecular_service_calculate(s, tk))
  /\ op' = "molecular_service_calculate"
  /\ pc' = "done"
  /\ UNCHANGED <<clean, idx, attempts>>
  /\ UNCHANGED dbvars

\* a call of chemical_utils.generate_compound_summary(smiles, name, cas_number)
CompoundSummaryCall ==
  /\ pc = "idle"
  /\ \E s \in UtilDescriptors, n \in SummaryNames, c \in SummaryCasNumbers :
       /\ arg' = s
       /\ env' = [name |-> n, cas_number |-> c]
       /\ returned' = Returned("generate_compound_summary", generate_compound_summary(s, n, c))
  /\ op' = "generate_compound_summary"
  /\ pc' = "done"
  /\ UNCHANGED <<clean, idx, attempts>>
  /\ UNCHANGED dbvars

\* a call of pubchem_service.get_compound_by_smiles(smiles)
CompoundBySmilesCall ==
  /\ pc = "idle"
  /\ \E s \in Descriptors, e \in CompoundEnvs :
       /\ arg' = s
       /\ env' = e
       /\ returned' = Returned("get_compound_by_smiles", get_compound_by_smiles(s, e))
  /\ op' = "get_compound_by_smiles"
  /\ pc' = "done"
  /\ UNCHANGED <<clean, idx, attempts>>
  /\ UNCHANGED dbvars

Next ==
  \/ CasCall
  \/ CasValidate
  \/ CasLoop
  \/ PropertiesWithFallbackCall
  \/ EstimateCall
  \/ IsValidCasCall
  \/ ValidateCasFormatCall
  \/ CalculatePropertiesRequest
  \/ CanonicalizeCall
  \/ ProcessChemicalDataCall
  \/ BackgroundCall
  \/ MolecularCalculateCall
  \/ CompoundSummaryCall
  \/ CompoundBySmilesCall
  \/ ExtractCompoundInfoCall
  \/ GuessCompoundNameCall
  \/ GuessNameFromSmilesCall
  \/ CirLookupCall
  \/ Return

Spec == Init /\ [][Next]_vars

\* every started step is carried out: the interpreter runs the call to its
\* end and every request carries a timeout
FairSpec == Spec /\ WF_vars(CasValidate) /\ WF_vars(CasLoop) /\ WF_vars(Return)

----------------------------------------------------------------------------
(* Concurrent calls on the cas_service singleton *)

\* Callers running get_cas_from_smiles on the one instance at the same time
\* (request handlers, background-task workers). The instance has one
\* attribute, self.sources, assigned in __init__ only (the definition
\* sources); everything else a call touches is a local of its own frame.
\* In this specification pc, op, arg, env and ret are indexed by caller, and
\* clean and idx by frame.
Threads == {1, 2}

\* mutant: every call keeps its locals in one place
Mut_frame_shared(t) == 1

\* the frame holding the locals of the call made by t: each call of a Python
\* function gets a frame of its own
Frame(t) == t

ConcDescriptors == {D_empty, D_ethanol, D_aspirin}

ConcEnvs ==
  {QuietEnv,
   [search |-> [kind |-> "ok", cid |-> 2244],
    synonyms |-> [kind |-> "ok", synonyms |-> <<S_aspirin, S_cas_aspirin>>],
    opsin |-> [kind |-> "ok"]]}

ConcInit ==
  /\ pc = [t \in Threads |-> "idle"]
  /\ op = [t \in Threads |-> "none"]
  /\ arg = [t \in Threads |-> <<>>]
  /\ env = [t \in Threads |-> QuietEnv]
  /\ clean = [t \in Threads |-> <<>>]
  /\ idx = [t \in Threads |-> 1]
  /\ attempts = <<>>
  /\ returned = [t \in Threads |-> NoRet]
  /\ EmptyTables

\* caller t calls cas_service.get_cas_from_smiles(smiles)
ConcCall(t) ==
  /\ pc[t] = "idle"
  /\ \E s \in ConcDescriptors, e \in ConcEnvs :
       /\ arg' = [arg EXCEPT ![t] = s]
       /\ env' = [env EXCEPT ![t] = e]
  /\ op' = [op EXCEPT ![t] = "get_cas_from_smiles"]
  /\ pc' = [pc EXCEPT ![t] = "cas_validate"]
  /\ UNCHANGED <<clean, idx, attempts, returned>>
  /\ UNCHANGED dbvars

\* lines 27-30, and the for statement of line 34 taking its iterator
ConcValidate(t) ==
  /\ pc[t] = "cas_validate"
  /\ IF IsBlank(arg[t])
       THEN /\ returned' = [returned EXCEPT ![t] = NoneRecord]
            /\ pc' = [pc EXCEPT ![t] = "done"]
            /\ UNCHANGED <<clean, idx>>
       ELSE /\ clean' = [clean EXCEPT ![Frame(t)] = ResolverKey(arg[t])]
            /\ idx' = [idx EXCEPT ![Frame(t)] = 1]
            /\ pc' = [pc EXCEPT ![t] = "cas_loop"]
            /\ UNCHANGED returned
  /\ UNCHANGED <<op, arg, env, attempts>>
  /\ UNCHANGED dbvars

\* one turn of the loop of lines 34-42, or the return of line 44 after it
ConcLoop(t) ==
  /\ pc[t] = "cas_loop"
  /\ IF idx[Frame(t)] > Len(sources)
       THEN /\ returned' = [returned EXCEPT ![t] = NoneRecord]
            /\ pc' = [pc EXCEPT ![t] = "done"]
            /\ UNCHANGED idx
       ELSE LET result == source_method(sources[idx[Frame(t)]], clean[Frame(t)], env[t])
            IN  IF HasCas(result)
                  THEN /\ returned' = [returned EXCEPT ![t] = result]
                       /\ pc' = [pc EXCEPT ![t] = "done"]
                       /\ UNCHANGED idx
                  ELSE /\ idx' = [idx EXCEPT ![Frame(t)] = NextSource(idx[Frame(t)])]
                       /\ UNCHANGED <<returned, pc>>
  /\ UNCHANGED <<op, arg, env, clean, attempts>>
  /\ UNCHANGED dbvars

\* caller t takes the value; the frame of the call is gone
ConcReturn(t) ==
  /\ pc[t] = "done"
  /\ pc' = [pc EXCEPT ![t] = "idle"]
  /\ op' = [op EXCEPT ![t] = "none"]
  /\ arg' = [arg EXCEPT ![t] = <<>>]
  /\ env' = [env EXCEPT ![t] = QuietEnv]
  /\ clean' = [clean EXCEPT ![Frame(t)] = <<>>]
  /\ idx' = [idx EXCEPT ![Frame(t)] = 1]
  /\ returned' = [returned EXCEPT ![t] = NoRet]
  /\ UNCHANGED attempts
  /\ UNCHANGED dbvars

ConcNext ==
  \E t \in Threads :
    \/ ConcCall(t)
    \/ ConcValidate(t)
    \/ ConcLoop(t)
    \/ ConcReturn(t)

ConcSpec == ConcInit /\ [][ConcNext]_vars

----------------------------------------------------------------------------
(* Stock requests: crud/stock_crud.py, crud/stock_adjustment_crud.py, *)
(* api/stock.py, api/stock_adjustments.py *)

\* Requests are served at the same time (one worker thread per request),
\* each with a Session of its own. A Session keeps the Stock object it
\* loaded; what it assigns reaches the table at db.commit(), and a commit or
\* db.refresh makes the next read of the object load the row again. Every
\* statement that goes to the database is a step of its own, so the steps of
\* two requests interleave. In this specification pc, op, arg, returned and
\* session are indexed by request thread. Quantities are whole numbers (the
\* columns are Float); unit, notes, ids and timestamps are left out.
MaxRequests == 3

\* the chemicals that have a row in table stock
StockedChemicals == {1}

\* the row of models.Stock, and the Stock object a Session holds of it:
\* current_quantity and trigger_level
StockRow(quantity, trigger) == [current_quantity |-> quantity, trigger_level |-> trigger]

\* the path and body of a request; a field an operation does not read is 0
StockRequestBody(chemical_id, used, quantity, trigger, after, change) ==
  [chemical_id |-> chemical_id, quantity_used |-> used,
   current_quantity |-> quantity, trigger_level |-> trigger,
   after_quantity |-> after, change_amount |-> change]

\* UsageHistoryCreate, StockUpdate, the trigger_level query parameter, and
\* StockAdjustmentCreate: the schemas declare plain floats, with no validator
StockRequests(operation) ==
  LET RequestChemicals == {1, 2}
      UsedQuantities == {-1, 2, 4}
      UpdateQuantities == {-1, 1, 6}
      TriggerLevels == {1, 4}
      ChangeAmounts == {-2, 3}
  IN  CASE operation = "record_usage" ->
             {StockRequestBody(c, u, 0, 0, 0, 0) :
                c \in RequestChemicals, u \in UsedQuantities}
        [] operation = "update_stock" ->
             {StockRequestBody(c, 0, q, l, 0, 0) :
                c \in RequestChemicals, q \in UpdateQuantities, l \in TriggerLevels}
        [] operation = "update_stock_trigger_level" ->
             {StockRequestBody(c, 0, 0, l, 0, 0) :
                c \in RequestChemicals, l \in TriggerLevels}
        [] OTHER ->
             {StockRequestBody(c, 0, 0, 0, a, d) :
                c \in RequestChemicals, a \in UpdateQuantities, d \in ChangeAmounts}

\* the names of names that are not bound, in order; evaluating the first of
\* them raises
Unbound(names, bound) == SelectSeq(names, LAMBDA n : n \notin bound)

\* the query of check_low_stock_alert, lines 43-47
existing_alert(rows, chemical_id) ==
  \E i \in 1..Len(rows) :
    /\ rows[i].chemical_id = chemical_id
    /\ rows[i].alert_type = "low_stock"
    /\ ~rows[i].is_resolved

StockInit ==
  /\ pc = [t \in Threads |-> "idle"]
  /\ op = [t \in Threads |-> "none"]
  /\ arg = [t \in Threads |-> StockRequestBody(0, 0, 0, 0, 0, 0)]
  /\ returned = [t \in Threads |-> NoRet]
  /\ env = QuietEnv
  /\ clean = <<>>
  /\ idx = 1
  /\ attempts = <<>>
  /\ stock = [c \in StockedChemicals |-> StockRow(3, 1)]
  /\ alerts = <<>>
  /\ stock_adjustments = <<>>
  /\ usage_history = <<>>
  /\ session = [t \in Threads |-> StockRow(0, 0)]
  /\ served = 0

\* a request reaches POST /stock/{id}/usage, PUT /stock/{id} or
\* PUT /stock/{id}/trigger-level
StockRequest(t) ==
  /\ pc[t] = "idle"
  /\ served < MaxRequests
  /\ \E operation \in {"record_usage", "update_stock", "update_stock_trigger_level"} :
       \E body \in StockRequests(operation) :
         /\ op' = [op EXCEPT ![t] = operation]
         /\ arg' = [arg EXCEPT ![t] = body]
  /\ pc' = [pc EXCEPT ![t] = "get"]
  /\ served' = served + 1
  /\ UNCHANGED <<returned, env, clean, idx, attempts>>
  /\ UNCHANGED <<stock, alerts, stock_adjustments, usage_history, session>>

\* a request for POST /stock-adjustments/: the handler exists when the def
\* statement of api/stock_adjustments.py lines 16-22 has run
AdjustmentEndpointRequest(t) ==
  /\ pc[t] = "idle"
  /\ served < MaxRequests
  /\ \E body \in StockRequests("create_stock_adjustment") :
       arg' = [arg EXCEPT ![t] = body]
  /\ op' = [op EXCEPT ![t] = "create_stock_adjustment"]
  /\ LET \* the names bound by lines 2-14 when the def statement runs
         bound ==
           {"APIRouter", "Depends", "HTTPException", "Query", "Session", "List",
            "Optional", "datetime", "timedelta", "get_db", "User", "Chemical",
            "StockAdjustment", "AdjustmentReason", "StockAdjustmentSchema",
            "StockAdjustmentCreate", "get_current_user", "require_admin", "stock_crud",
            "broadcast_stock_adjustment", "router"}
         \* the names the def statement evaluates, in the order Python evaluates
         \* them: the decorator (line 16), the defaults (lines 20-21), the
         \* annotations (lines 18-21)
         evaluated ==
           <<"router", "StockAdjustmentSchema", "Depends", "get_db", "Depends",
             "require_admin", "StockAdjustmentCreate", "BackgroundTasks", "Session",
             "User">>
         unbound == Unbound(evaluated, bound)
     IN  IF unbound = <<>>
           THEN /\ pc' = [pc EXCEPT ![t] = "get"]
                /\ UNCHANGED returned
           ELSE /\ pc' = [pc EXCEPT ![t] = "done"]
                /\ returned' = [returned EXCEPT ![t] = RaisedError("NameError", unbound[1])]
  /\ served' = served + 1
  /\ UNCHANGED <<env, clean, idx, attempts>>
  /\ UNCHANGED <<stock, alerts, stock_adjustments, usage_history, session>>

\* a call of stock_adjustment_crud.create_stock_adjustment (lines 11-57):
\* the import of line 7, then adjustment_data.quantity_change of line 26
\* (StockAdjustmentCreate has no such field), db.rollback() and the raise
\* of lines 54-57
CrudAdjustmentCall(t) ==
  /\ pc[t] = "idle"
  /\ served < MaxRequests
  /\ \E body \in StockRequests("create_stock_adjustment") :
       arg' = [arg EXCEPT ![t] = body]
  /\ op' = [op EXCEPT ![t] = "stock_adjustment_crud.create_stock_adjustment"]
  /\ LET \* schemas/__init__.py: the stock, usage, adjustment and alert names
         \* it defines
         schemas_names ==
           {"AdjustmentReason", "Stock", "StockBase", "StockCreate", "StockUpdate",
            "UsageHistory", "UsageHistoryBase", "UsageHistoryCreate", "StockAdjustment",
            "StockAdjustmentBase", "StockAdjustmentCreate", "Alert", "AlertBase",
            "AlertCreate"}
         unbound == Unbound(<<"StockAdjustmentCreate", "StockAdjustmentType">>, schemas_names)
     IN  returned' = [returned EXCEPT ![t] =
           IF unbound = <<>> THEN RaisedError("AttributeError", "quantity_change")
           ELSE RaisedError("ImportError", unbound[1])]
  /\ pc' = [pc EXCEPT ![t] = "done"]
  /\ served' = served + 1
  /\ UNCHANGED <<env, clean, idx, attempts>>
  /\ UNCHANGED <<stock, alerts, stock_adjustments, usage_history, session>>

\* stock_crud.get_stock (line 14), as called by record_usage line 111,
\* api/stock.py line 98, update_stock_trigger_level line 150 and
\* api/stock_adjustments.py line 27; and what each handler answers when
\* there is no row
GetStock(t) ==
  /\ pc[t] = "get"
  /\ IF arg[t].chemical_id \in DOMAIN stock
       THEN /\ session' = [session EXCEPT ![t] = stock[arg[t].chemical_id]]
            /\ pc' = [pc EXCEPT ![t] = "commit"]
            /\ UNCHANGED returned
       ELSE /\ returned' = [returned EXCEPT ![t] =
                 IF op[t] \in {"update_stock", "create_stock_adjustment"}
                   THEN [status_code |-> 404] ELSE [status_code |-> 500]]
            /\ pc' = [pc EXCEPT ![t] = "done"]
            /\ UNCHANGED session
  /\ UNCHANGED <<op, arg, env, clean, idx, attempts>>
  /\ UNCHANGED <<stock, alerts, stock_adjustments, usage_history, served>>

\* from the loaded object to db.commit():
\*   record_usage lines 116-133; api/stock.py lines 103-113 with
\*   stock_crud.update_stock lines 20-28 (get_stock of line 20 returns the
\*   object the Session already holds); update_stock_trigger_level lines
\*   154-156; api/stock_adjustments.py lines 32-54
CommitChange(t) ==
  /\ pc[t] = "commit"
  /\ LET c == arg[t].chemical_id
         mine == session[t]
         rejected ==
           \/ op[t] = "record_usage" /\ mine.current_quantity < arg[t].quantity_used
           \/ op[t] = "create_stock_adjustment" /\ arg[t].after_quantity < 0
         new_quantity ==
           CASE op[t] = "record_usage" -> mine.current_quantity - arg[t].quantity_used
             [] op[t] = "update_stock" -> arg[t].current_quantity
             [] op[t] = "create_stock_adjustment" -> arg[t].after_quantity
             [] OTHER -> stock[c].current_quantity
         new_trigger ==
           IF op[t] \in {"update_stock", "update_stock_trigger_level"}
             THEN arg[t].trigger_level ELSE stock[c].trigger_level
         change_amount ==
           IF op[t] = "update_stock"
             THEN arg[t].current_quantity - mine.current_quantity
             ELSE arg[t].change_amount
         \* the row of models.StockAdjustment; stock_before and stock_after are
         \* history: current_quantity of the stock row in the table just
         \* before and just after the commit that stores the adjustment
         adjustment ==
           [chemical_id |-> c, before_quantity |-> mine.current_quantity,
            after_quantity |-> new_quantity, change_amount |-> change_amount,
            stock_before |-> stock[c].current_quantity, stock_after |-> new_quantity]
     IN  IF rejected
           THEN /\ returned' = [returned EXCEPT ![t] = [status_code |-> 400]]
                /\ pc' = [pc EXCEPT ![t] = "done"]
                /\ UNCHANGED <<stock, stock_adjustments, usage_history>>
           ELSE /\ stock' = [stock EXCEPT ![c] = StockRow(new_quantity, new_trigger)]
                /\ stock_adjustments' =
                     IF op[t] \in {"update_stock", "create_stock_adjustment"}
                       THEN Append(stock_adjustments, adjustment)
                       ELSE stock_adjustments
                /\ usage_history' =
                     IF op[t] = "record_usage"
                       THEN Append(usage_history,
                                   [chemical_id |-> c, quantity_used |-> arg[t].quantity_used])
                       ELSE usage_history
                /\ pc' = [pc EXCEPT ![t] = "reload"]
                /\ UNCHANGED returned
  /\ UNCHANGED <<op, arg, env, clean, idx, attempts>>
  /\ UNCHANGED <<alerts, session, served>>

\* the row is read again after the commit (db.refresh of stock_crud lines 29
\* and 157; the first attribute read of line 41 after record_usage and the
\* adjustment endpoint), then the test of check_low_stock_alert line 41
ReloadStock(t) ==
  /\ pc[t] = "reload"
  /\ LET row == stock[arg[t].chemical_id]
     IN  /\ session' = [session EXCEPT ![t] = row]
         /\ IF row.current_quantity <= row.trigger_level
              THEN /\ pc' = [pc EXCEPT ![t] = "alert_query"]
                   /\ UNCHANGED returned
              ELSE /\ pc' = [pc EXCEPT ![t] = "done"]
                   /\ returned' = [returned EXCEPT ![t] = [status_code |-> 200]]
  /\ UNCHANGED <<op, arg, env, clean, idx, attempts>>
  /\ UNCHANGED <<stock, alerts, stock_adjustments, usage_history, served>>

\* check_low_stock_alert lines 43-49
QueryAlert(t) ==
  /\ pc[t] = "alert_query"
  /\ IF existing_alert(alerts, arg[t].chemical_id)
       THEN /\ pc' = [pc EXCEPT ![t] = "done"]
            /\ returned' = [returned EXCEPT ![t] = [status_code |-> 200]]
       ELSE /\ pc' = [pc EXCEPT ![t] = "alert_insert"]
            /\ UNCHANGED returned
  /\ UNCHANGED <<op, arg, env, clean, idx, attempts>>
  /\ UNCHANGED dbvars

\* check_low_stock_alert lines 51-59, then the rest of the handler
\* (check_and_notify_low_stock and the broadcast only read)
InsertAlert(t) ==
  /\ pc[t] = "alert_insert"
  /\ alerts' = Append(alerts, [chemical_id |-> arg[t].chemical_id,
                               alert_type |-> "low_stock", is_resolved |-> FALSE])
  /\ pc' = [pc EXCEPT ![t] = "done"]
  /\ returned' = [returned EXCEPT ![t] = [status_code |-> 200]]
  /\ UNCHANGED <<op, arg, env, clean, idx, attempts>>
  /\ UNCHANGED <<stock, stock_adjustments, usage_history, session, served>>

\* the response is sent and get_db closes the Session
Respond(t) ==
  /\ pc[t] = "done"
  /\ pc' = [pc EXCEPT ![t] = "idle"]
  /\ op' = [op EXCEPT ![t] = "none"]
  /\ arg' = [arg EXCEPT ![t] = StockRequestBody(0, 0, 0, 0, 0, 0)]
  /\ returned' = [returned EXCEPT ![t] = NoRet]
  /\ session' = [session EXCEPT ![t] = StockRow(0, 0)]
  /\ UNCHANGED <<env, clean, idx, attempts>>
  /\ UNCHANGED <<stock, alerts, stock_adjustments, usage_history, served>>

StockNext ==
  \E t \in Threads :
    \/ StockRequest(t)
    \/ AdjustmentEndpointRequest(t)
    \/ CrudAdjustmentCall(t)
    \/ GetStock(t)
    \/ CommitChange(t)
    \/ ReloadStock(t)
    \/ QueryAlert(t)
    \/ InsertAlert(t)
    \/ Respond(t)

StockSpec == StockInit /\ [][StockNext]_vars

----------------------------------------------------------------------------
(* Properties *)

CasReturned == op = "get_cas_from_smiles" /\ pc = "done"

\* a string made of digits and hyphens only
NumberLike(s) == s # <<>> /\ \A i \in 1..Len(s) : s[i] \in DigitChars \cup {"-"}

\* the primary database fails, or answers without any number-like synonym
\* (the other external sources of the chain never answer a registry number)
ExternalSourcesSilent(e) ==
  \/ e.search.kind \in FailureKinds
  \/ e.search.cid = 0
  \/ e.synonyms.kind \in FailureKinds
  \/ \A i \in 1..Len(e.synonyms.synonyms) : ~NumberLike(e.synonyms.synonyms[i])

C2_ChainAlwaysReturns ==
  (pc = "cas_validate") ~>
    (CasReturned /\ ret.source \in {"pubchem", "internal_fallback", "none"})

C2_Witness ==
  /\ CasReturned
  /\ env.search.kind = "network_error"
  /\ env.opsin.kind = "timeout"
  /\ Len(attempts) = Len(sources)
  /\ ret.source = "internal_fallback"

\* C3: every registry number returned to a caller matches \d{2,7}-\d{2}-\d.
C3_ReturnedNumbersMatchGrammar ==
  /\ (CasReturned /\ Truthy(ret.cas_number)) => MatchesGrammar(ret.cas_number)
  /\ (op = "estimate_cas_from_smiles" /\ pc = "done" /\ ret # None)
       => MatchesGrammar(ret)

\* C4: both format checks accept a string exactly when it is three
\* hyphen-separated digit groups of lengths 2 to 7, 2 and 1.
C4_FormatChecksExact ==
  (op \in {"_is_valid_cas", "_validate_cas_format"} /\ pc = "done")
    => (ret <=> MatchesGrammar(arg))

\* C5: the generated registry number of _generate_fallback_cas, and the
\* pseudo number of estimate_cas_from_smiles for a descriptor outside its
\* table, is accepted by the format validators.
C5_SyntheticAcceptedByValidator ==
  /\ (CasReturned /\ ret.source = "internal_fallback")
       => (_validate_cas_format(ret.cas_number) /\ _is_valid_cas(ret.cas_number))
  /\ (op = "estimate_cas_from_smiles" /\ pc = "done" /\ ret # None
        /\ known_cas_mapping(clean) = None)
       => _validate_cas_format(ret)

PrimaryAnswersRegistryNumber(e) ==
  /\ e.search.kind = "ok"
  /\ e.search.cid # 0
  /\ e.synonyms.kind = "ok"
  /\ \E i \in 1..Len(e.synonyms.synonyms) : MatchesGrammar(e.synonyms.synonyms[i])

\* C7: if the primary database answers with a well-formed registry number,
\* the record returned carries such a number of its answer, with confidence
\* high.
C7_PrimaryNumberReturnedHigh ==
  (CasReturned /\ ~IsBlank(arg) /\ PrimaryAnswersRegistryNumber(env)) =>
    /\ \E i \in 1..Len(env.synonyms.synonyms) :
         /\ MatchesGrammar(env.synonyms.synonyms[i])
         /\ ret.cas_number = env.synonyms.synonyms[i]
    /\ ret.confidence = "high"

\* the fixed priority order of the chain
PriorityOrder ==
  <<"_try_pubchem", "_try_chemspider", "_try_nist", "_try_opsin", "_generate_fallback_cas">>

\* a source's record carries a registry number (these records carry no name)
Yields(result) == Truthy(result.cas_number)

\* C8: the sources are called in the priority order, a source is called only
\* if no source before it yielded, and the record of a source that yields is
\* the one returned.
C8_PriorityOrderShortCircuit ==
  op = "get_cas_from_smiles" =>
    /\ Len(attempts) <= Len(PriorityOrder)
    /\ \A i \in 1..Len(attempts) :
         /\ attempts[i].source = PriorityOrder[i]
         /\ i < Len(attempts) => ~Yields(attempts[i].result)
         /\ Yields(attempts[i].result) => (pc = "done" /\ ret = attempts[i].result)

C8_Witness ==
  /\ CasReturned
  /\ Len(attempts) = 1
  /\ Yields(attempts[1].result)
  /\ ret.source = "pubchem"

\* the answers of e, every failed request answered with an empty payload
EmptyAnswers(e) ==
  [search |-> IF e.search.kind \in FailureKinds
                THEN [kind |-> "ok", cid |-> 0] ELSE e.search,
   synonyms |-> IF e.synonyms.kind \in FailureKinds
                  THEN [kind |-> "ok", synonyms |-> <<>>] ELSE e.synonyms,
   opsin |-> IF e.opsin.kind \in FailureKinds THEN [kind |-> "ok"] ELSE e.opsin]

\* C9: a failed request (network error, timeout, non-2xx, unparseable) of an
\* external source changes nothing against an empty answer: the chain goes
\* on to the next source and returns what it returns on the empty answer.
C9_FailureIsEmptyAnswer ==
  CasReturned =>
    /\ ret = get_cas_from_smiles(arg, EmptyAnswers(env))
    /\ (~IsBlank(arg) /\ env.search.kind \in FailureKinds) => Len(attempts) > 1

C9_Witness ==
  /\ CasReturned
  /\ env.search.kind = "unparseable"
  /\ env.synonyms.kind = "ok"
  /\ Len(env.synonyms.synonyms) = 2
  /\ ret.source = "internal_fallback"

\* C10: a blank descriptor sent to POST /calculate-properties is answered
\* with the 400 validation error.
C10_BlankAnsweredWith400 ==
  (op = "calculate_molecular_properties" /\ pc = "done" /\ IsBlank(arg))
    => (ret.raised /\ ret.status_code = 400)

\* the same structure written in two ways: ethanol from either end of the chain
SameStructure(a, b) == a = b \/ {a, b} = {D_ethanol, D_ethanol_rev}

\* descriptors that are syntactically valid as written
ValidDescriptors ==
  {D_ethanol, D_ethanol_rev, D_aspirin, D_hexanol, D_isobutanol, D_crotyl, D_methanol}

\* C11: two valid descriptors of one structure get the same canonical string
\* from canonicalize_smiles, and the same canonical_smiles field from
\* process_chemical_data and from calculate_properties_in_background.
C11_SameStructureSameCanonical ==
  \A d \in ValidDescriptors :
    (pc = "done" /\ arg \in ValidDescriptors /\ SameStructure(arg, d)) =>
      /\ op = "canonicalize_smiles" => ret = canonicalize_smiles(d)
      /\ op = "process_chemical_data" =>
           ret.canonical_smiles =
             process_chemical_data(d, env.name, env.cas_number, env.unique_id).canonical_smiles
      /\ op = "calculate_properties_in_background" =>
           ret.properties.canonical_smiles =
             calculate_properties_in_background(d).properties.canonical_smiles

\* C12: two different input strings of one structure that both fall through
\* to the synthetic fallback generator receive the same synthetic number.
C12_SameStructureSameSyntheticNumber ==
  \A d \in Descriptors :
    (/\ CasReturned /\ ret.source = "internal_fallback"
     /\ d # arg /\ ~IsBlank(d) /\ SameStructure(Strip(arg), Strip(d))
     /\ get_cas_from_smiles(d, env).source = "internal_fallback")
      => get_cas_from_smiles(d, env).cas_number = ret.cas_number

\* C13: canonicalize_smiles is idempotent: canonicalizing the string it
\* returned returns that string unchanged.
C13_CanonicalizeIdempotent ==
  (op = "canonicalize_smiles" /\ pc = "done") => canonicalize_smiles(ret) = ret

C13_Witness ==
  /\ op = "canonicalize_smiles"
  /\ pc = "done"
  /\ arg = D_padded
  /\ ret = D_ethanol

CalculatorReturned == op = "molecular_service_calculate" /\ pc = "done"

\* C15: every call of the property calculator returns a property set whose
\* calculation_source is rdkit or fallback, and it is fallback whenever the
\* toolkit is unavailable, cannot parse the descriptor, or raises.
C15_CalculationSourceAlwaysSet ==
  CalculatorReturned =>
    /\ ~ret.raised
    /\ ret.calculation_source \in {"rdkit", "fallback"}
    /\ (~env.toolkit.rdkit_available \/ env.toolkit.parse \in {"none", "raises"})
         => ret.calculation_source = "fallback"

\* the toolkit missing from the process
ToolkitUnavailable == [rdkit_available |-> FALSE, parse |-> "none"]

\* C16: when the toolkit is available and cannot parse the descriptor, no
\* property set is produced, and the outcome is not the one of the
\* toolkit-unavailable path (the fallback estimator is not gone to).
C16_ParseFailureIsTerminalRejection ==
  (CalculatorReturned /\ env.toolkit.rdkit_available /\ env.toolkit.parse = "none") =>
    /\ ret.raised
    /\ ret # molecular_service_calculate(arg, ToolkitUnavailable)

SummaryReturned == op = "generate_compound_summary" /\ pc = "done"

\* C17: generate_compound_summary returns data_quality high, medium or low:
\* high exactly when structure_valid, name_valid and cas_valid all hold,
\* medium exactly when two of them hold, low when at most one holds.
C17_DataQualityCountsChecks ==
  SummaryReturned =>
    LET holding == Cardinality({f \in {"structure_valid", "name_valid", "cas_valid"} :
                                  ret.validation[f]})
    IN  /\ ret.data_quality \in {"high", "medium", "low"}
        /\ ret.data_quality = "high" <=> holding = 3
        /\ ret.data_quality = "medium" <=> holding = 2
        /\ ret.data_quality = "low" <=> holding <= 1

C17_Witness ==
  /\ SummaryReturned
  /\ ret.validation.structure_valid
  /\ ret.validation.name_valid
  /\ ~ret.validation.cas_valid
  /\ ret.data_quality = "medium"

\* C18: for a valid descriptor process_chemical_data returns a record whose
\* canonical_smiles and inchikey are non-empty, whose molecular_formula is
\* non-empty and whose molecular_weight is greater than zero.
C18_ProcessedRecordIsComplete ==
  (op = "process_chemical_data" /\ pc = "done" /\ arg \in ValidDescriptors) =>
    /\ ret.canonical_smiles # <<>>
    /\ ret.inchikey # <<>>
    /\ ret.molecular_formula # <<>>
    /\ ret.molecular_weight > 0

\* C19: calls share no mutable state: under any interleaving of concurrent
\* calls on the cas_service singleton, the result of each call equals the
\* result of that call run alone with the same descriptor and the same
\* external-source responses.
C19_ConcurrentCallsIndependent ==
  \A t \in Threads :
    pc[t] = "done" => returned[t] = get_cas_from_smiles(arg[t], env[t])

\* one call has returned its synthetic number while the other call, made with
\* another descriptor, is in the middle of its loop
C19_Witness ==
  /\ pc[1] = "done"
  /\ returned[1].source = "internal_fallback"
  /\ pc[2] = "cas_loop"
  /\ idx[2] = 3
  /\ arg[1] = D_aspirin
  /\ arg[2] = D_ethanol

\* C20: for every non-empty descriptor get_compound_by_smiles returns a
\* compound record; when the primary database and CIR yield nothing, it is
\* the generated basic compound data.
C20_NonEmptyDescriptorGetsRecord ==
  (op = "get_compound_by_smiles" /\ pc = "done" /\ arg # <<>>) =>
    /\ ret # NoneDict
    /\ ( /\ ~DictTruthy(_get_compound_by_smiles_pubchem(Strip(arg), env))
         /\ ~DictTruthy(_get_compound_by_smiles_cir(Strip(arg), env)) )
       => ret = _generate_basic_compound_data(Strip(arg))

\* C21: the provenance tag of extract_compound_info names the builder of the
\* record: generated basic data is tagged 'generated', and only a record
\* built from CIR responses is tagged 'cir'.
C21_ProvenanceNamesTheBuilder ==
  (op = "extract_compound_info" /\ pc = "done" /\ DictTruthy(env.compound_data)) =>
    /\ env.built_by = "generated" => ret.source = "generated"
    /\ ret.source = "cir" => env.built_by = "cir"

\* C22: for a descriptor that is literally a specific-compound key of the
\* name table (an entry written with a final '$'), each name guesser returns
\* that compound's name, whatever functional-group pattern also matches.
C22_SpecificKeyGetsItsName ==
  (pc = "done" /\ op \in {"_guess_compound_name", "_guess_compound_name_from_smiles"}) =>
    LET table == IF op = "_guess_compound_name"
                   THEN compound_name_patterns ELSE name_patterns
    IN  \A i \in 1..Len(table) :
          ( /\ table[i].pattern[Len(table[i].pattern)] = "$"
            /\ arg = SubSeq(table[i].pattern, 1, Len(table[i].pattern) - 1) )
            => ret = table[i].name

\* C23: when no request fails, a CIR answer with a preferred name or a
\* registry number is accepted with exactly the fields CIR returned, and an
\* answer with neither a name nor a registry number is not accepted.
C23_CirAcceptsNameOrRegistryNumber ==
  ( /\ pc = "done" /\ op = "_get_compound_by_smiles_cir"
    /\ \A r \in {env.cir_name, env.cir_cas, env.cir_formula, env.cir_mw} :
         r.kind \notin RaisingKinds ) =>
    LET given(r) == r.kind = "ok" /\ CirFound(Strip(r.text))
        labels == {ret.PC_Compounds[1].props[i].urn.label :
                     i \in 1..Len(ret.PC_Compounds[1].props)}
    IN  IF given(env.cir_name) \/ given(env.cir_cas)
          THEN /\ DictTruthy(ret)
               /\ "IUPAC Name" \in labels <=> given(env.cir_name)
               /\ "CAS Registry Number" \in labels <=> given(env.cir_cas)
               /\ "Molecular Formula" \in labels <=> given(env.cir_formula)
          ELSE ret = NoneDict

\* C24: on a hit of the primary database the number returned is the first
\* synonym, in list order, that matches the registry-number grammar; when no
\* synonym matches it the primary source yields nothing and the record is
\* the one the sources after it produce.
C24_FirstGrammaticalSynonym ==
  ( /\ CasReturned /\ ~IsBlank(arg)
    /\ env.search.kind = "ok" /\ env.search.cid # 0
    /\ env.synonyms.kind = "ok" ) =>
    LET synonyms == env.synonyms.synonyms
        matching == {i \in 1..Len(synonyms) : MatchesGrammar(synonyms[i])}
    IN  IF matching # {}
          THEN /\ ret.source = "pubchem"
               /\ ret.cas_number =
                    synonyms[CHOOSE i \in matching : \A j \in matching : i <= j]
          ELSE ret = CasLoopFrom(2, ResolverKey(arg), env)

\* C25: each entry point yields for a descriptor with surrounding whitespace
\* or stray backslashes the canonical form and the derived keys it yields
\* for the descriptor without them.
C25_PaddingAndBackslashesIgnored ==
  pc = "done" =>
    LET d == Strip(RemoveBackslashes(arg))
    IN  /\ op = "process_chemical_data" =>
             LET plain == process_chemical_data(d, env.name, env.cas_number, env.unique_id)
             IN  /\ ret.canonical_smiles = plain.canonical_smiles
                 /\ ret.inchikey = plain.inchikey
        /\ op = "calculate_properties_in_background" =>
             ret.properties = calculate_properties_in_background(d).properties
        /\ op = "estimate_cas_from_smiles" => ret = estimate_cas_from_smiles(d)
        /\ op = "get_cas_from_smiles" => ret = get_cas_from_smiles(d, env)

\* C26: when the toolkit is unavailable and the descriptor holds no atom
\* symbol the fallback estimator counts, the calculator returns a property
\* set, not an error, with an empty formula, an empty identifier and every
\* numeric field zero.
C26_NoAtomsGivesZeroedPropertySet ==
  ( /\ CalculatorReturned /\ ~env.toolkit.rdkit_available
    /\ \A i \in 1..Len(arg) : arg[i] \notin {"C", "H", "O", "N"} ) =>
    /\ ~ret.raised
    /\ ret.molecular_formula = <<>>
    /\ ret.inchikey = <<>>
    /\ \A field \in {"molecular_weight", "logp", "tpsa", "hydrogen_bond_donors",
                     "hydrogen_bond_acceptors", "rotatable_bonds", "heavy_atom_count",
                     "formal_charge", "atom_count", "ring_count", "aromatic_rings"} :
         ret[field] = 0

\* C27: calculate_properties_in_background never returns with status
\* processing; it returns completed exactly when steps_completed is the full
\* sequence of steps, and error otherwise, with a proper prefix of it.
C27_BackgroundEndsCompletedOrError ==
  (op = "calculate_properties_in_background" /\ pc = "done") =>
    LET all_steps == <<"structure_validation", "canonicalization", "property_calculation",
                       "inchikey_generation", "completed">>
        steps == ret.steps_completed
    IN  /\ ret.status # "processing"
        /\ ret.status = "completed" <=> steps = all_steps
        /\ ret.status # "completed" =>
             /\ ret.status = "error"
             /\ Len(steps) < Len(all_steps)
             /\ steps = SubSeq(all_steps, 1, Len(steps))

C27_Witness ==
  /\ op = "calculate_properties_in_background" /\ pc = "done"
  /\ arg = D_noise
  /\ ret.status = "error"
  /\ ret.steps_completed = <<"structure_validation">>


\* C28: after any sequence of stock operations (record_usage,
\* create_stock_adjustment, the stock-adjustment endpoint, update_stock) the
\* stored current_quantity of every stock row is greater than or equal to
\* zero, and an operation that would make it negative is rejected and leaves
\* the stock table unchanged.
C28_StockNeverNegative ==
  /\ [](\A c \in DOMAIN stock : stock[c].current_quantity >= 0)
  /\ [][\A t \in DOMAIN session :
          pc[t] = "commit" /\ pc'[t] = "done" => stock' = stock]_vars

\* C29: in every reachable state, under every interleaving of the requests
\* that change stock, each chemical has at most one unresolved low_stock
\* alert.
C29_OneUnresolvedAlertPerChemical ==
  \A c \in DOMAIN stock :
    Cardinality({i \in 1..Len(alerts) :
                   /\ alerts[i].chemical_id = c
                   /\ alerts[i].alert_type = "low_stock"
                   /\ ~alerts[i].is_resolved}) <= 1

\* C30: every stored stock-adjustment record has
\* after_quantity = before_quantity + change_amount, with before_quantity the
\* stock quantity immediately before the adjustment and after_quantity the
\* stock quantity immediately after it.
C30_AdjustmentRecordsAddUp ==
  \A i \in 1..Len(stock_adjustments) :
    LET row == stock_adjustments[i]
    IN  /\ row.after_quantity = row.before_quantity + row.change_amount
        /\ row.before_quantity = row.stock_before
        /\ row.after_quantity = row.stock_after

====
